---- MODULE Spec2Model ----
(***************************************************************************)
(* GitHub Portfolio Analyzer: the scoring/aggregation engine.              *)
(*                                                                         *)
(*   src/lib/graphql-github-service.ts  GraphQLGitHubService               *)
(*   src/lib/scoring-engine.ts          GitHubService (REST), and          *)
(*                                      NewScoringEngine                   *)
(*                                                                         *)
(* Time.  An instant is an integer number of HOURS since 2026-01-01 00:00  *)
(* in the standard time of the zone the server runs in (the code works in  *)
(* milliseconds; one model unit stands for 3 600 000 of them, so the       *)
(* code's 1000*60*60*24 is 24 here).  The calendar below is exact for the  *)
(* years 2025..2027, none of which is a leap year; every instant that is   *)
(* converted to or from a calendar date lies in that range.                *)
(*                                                                         *)
(* Numbers.  commitFrequency is a count divided by 6; it is kept as the    *)
(* count of sixths (30 stands for 5.0 commits/month).  Dimension scores    *)
(* are Math.round of a sum of fractions k/n with n <= 6; the model rounds  *)
(* the exact rational, which agrees with IEEE doubles on every value the   *)
(* scorers can produce.                                                    *)
(***************************************************************************)
EXTENDS Integers, Sequences, FiniteSets, TLC

VARIABLES
    tz,               \* the time zone of the process (Date's local time)
    now,              \* the wall clock read by the operation under study
    rawRepositories,  \* input of calculateActivityData: repositories with commit history
    activityData,     \* its result (None before it ran)
    data,             \* the GitHubAnalysisData snapshot handed to the scorer
    scoredRepos,      \* result of selectReposForScoring
    profileType,      \* result of detectProfileType
    portfolio,        \* result of NewScoringEngine.calculateScore (None before it ran)
    suggestions,      \* argument of prioritizeSuggestions, as the scorers emitted it
    prioritized,      \* what prioritizeSuggestions returned
    topSuggestions,   \* prioritizeSuggestions(allSuggestions).slice(0, 5)
    previous,         \* result of the calculateScore invocation before the last one
    clockReads,       \* the clock values the calculateScore invocations have read
    response,         \* the GraphQL response fetchUserData works on
    route,            \* the analyze GET handler: request, fetches made, answer
    legacy,           \* input and result of the legacy ScoringEngine.calculateScore
    page,             \* AnalyzePage: its state and the fetches in flight
    pc                \* which operation has run

vars == <<tz, now, rawRepositories, activityData, data, scoredRepos, profileType,
          portfolio, suggestions, prioritized, topSuggestions, previous, clockReads,
          response, route, legacy, page, pc>>

\* An optional value (null / undefined in the source) is a sequence of length <= 1.
None == <<>>
Some(x) == <<x>>

Max(a, b) == IF a >= b THEN a ELSE b
Min(a, b) == IF a <= b THEN a ELSE b

\* Math.ceil(a / b) for a >= 0, b > 0
Ceil(a, b) == (a + b - 1) \div b

\* Math.floor(a / b)
Floor(a, b) == a \div b

\* Math.abs
Abs(a) == IF a < 0 THEN -a ELSE a

\* Math.round(num / den) for den > 0: the nearest integer, ties toward +infinity
Round(num, den) == (2 * num + den) \div (2 * den)

RECURSIVE SeqSum(_)
SeqSum(s) == IF s = <<>> THEN 0 ELSE Head(s) + SeqSum(Tail(s))

\* Array.prototype.slice(0, n); a negative n counts from the end
Slice0(s, n) ==
    LET e == IF n < 0 THEN Max(Len(s) + n, 0) ELSE Min(n, Len(s))
    IN  SubSeq(s, 1, e)

\* Array.prototype.flat of an array of arrays
RECURSIVE Flat(_)
Flat(ss) == IF ss = <<>> THEN <<>> ELSE Head(ss) \o Flat(Tail(ss))

Range(s) == {s[i] : i \in DOMAIN s}

\* k copies of x
Rep(k, x) == [i \in 1..k |-> x]

-----------------------------------------------------------------------------
(* The JavaScript Date operations the code calls, in local time.           *)

MS_PER_DAY == 24

HoursPerYear == 365 * MS_PER_DAY

Zones == {"UTC", "America/New_York"}

\* Daylight saving time of America/New_York in 2026, in standard-time hours:
\* from Mar 8 02:00 standard until Nov 1 02:00 daylight (01:00 standard).
DstStart == (31 + 28 + 7) * MS_PER_DAY + 2
DstEnd == (31 + 28 + 31 + 30 + 31 + 30 + 31 + 31 + 30 + 31) * MS_PER_DAY + 1

DstOffset(zone, t) ==
    IF zone = "America/New_York" /\ t >= DstStart /\ t < DstEnd THEN 1 ELSE 0

\* the wall-clock reading of instant t
LocalTime(zone, t) == t + DstOffset(zone, t)

\* the instant whose wall-clock reading is w (the earlier one when w repeats)
UtcOfLocal(zone, w) ==
    IF DstOffset(zone, w - 1) = 1 THEN w - 1 ELSE w

DaysBeforeMonth == <<0, 31, 59, 90, 120, 151, 181, 212, 243, 273, 304, 334, 365>>

\* getFullYear/getMonth/getDate/getHours of a wall-clock reading
\* (year 0 is 2026, month 0 is January)
LocalFields(w) ==
    LET dayIndex == w \div MS_PER_DAY
        doy == dayIndex % 365
        m == CHOOSE k \in 0..11 : DaysBeforeMonth[k + 1] <= doy /\ doy < DaysBeforeMonth[k + 2]
    IN  [year |-> dayIndex \div 365, month |-> m,
         date |-> doy - DaysBeforeMonth[m + 1] + 1, hours |-> w % MS_PER_DAY]

\* MakeDay/MakeDate: month and date may be out of range and carry over
MakeLocal(year, month, date, hours) ==
    LET y == year + (month \div 12)
        m == month % 12
    IN  (y * 365 + DaysBeforeMonth[m + 1] + date - 1) * MS_PER_DAY + hours

\* Date.prototype.toDateString: the local calendar date, "Mon Nov 02 2026".
\* The string is represented by the index of that calendar day.
toDateString(zone, t) == LocalTime(zone, t) \div MS_PER_DAY

\* new Date(dateString) of a toDateString() string: local midnight of that day
DateOfDateString(zone, d) == UtcOfLocal(zone, d * MS_PER_DAY)

\* d.setMonth(d.getMonth() - 6)
SetMonthMinus6(zone, t) ==
    LET f == LocalFields(LocalTime(zone, t))
    IN  UtcOfLocal(zone, MakeLocal(f.year, f.month - 6, f.date, f.hours))

\* d.setDate(d.getDate() - 1)
SetDateMinus1(zone, t) ==
    LET f == LocalFields(LocalTime(zone, t))
    IN  UtcOfLocal(zone, MakeLocal(f.year, f.month, f.date - 1, f.hours))

\* Array.prototype.sort((a, b) => b - a) of a set of distinct numbers
RECURSIVE SortDesc(_)
SortDesc(S) ==
    IF S = {} THEN <<>>
    ELSE LET m == CHOOSE x \in S : \A y \in S : y <= x
         IN  <<m>> \o SortDesc(S \ {m})

-----------------------------------------------------------------------------
(* Activity Aggregator.                                                    *)
(* A raw repository is [name, isFork, history]; history is None when the   *)
(* repository has no default branch history (REST: listCommits throws),    *)
(* else Some([totalCount, nodes]) with nodes the commit instants.          *)

FREQ_MONTHS == 6

\* repositories.forEach(... history.nodes?.forEach(commit => commitDates.push(...)))
CommitDates(repositories) ==
    Flat([i \in DOMAIN repositories |->
            IF repositories[i].history = None THEN <<>>
            ELSE repositories[i].history[1].nodes])

\* totalCommits += history.totalCount || 0
TotalCommits(repositories) ==
    SeqSum([i \in DOMAIN repositories |->
              IF repositories[i].history = None THEN 0
              ELSE repositories[i].history[1].totalCount])

\* lastCommitDate taken from the last commit pushed, without the comparison
RECURSIVE LastCommitDateUncompared(_, _)
LastCommitDateUncompared(commitDates, last) ==
    IF commitDates = <<>> THEN last
    ELSE LastCommitDateUncompared(Tail(commitDates), Some(Head(commitDates)))

\* if (!lastCommitDate || date > new Date(lastCommitDate)) lastCommitDate = committedDate
RECURSIVE LastCommitDate(_, _)
LastCommitDate(commitDates, last) ==
    IF commitDates = <<>> THEN last
    ELSE LET date == Head(commitDates)
         IN  LastCommitDate(Tail(commitDates),
                            IF last = None \/ date > last[1] THEN Some(date) ELSE last)

\* Math.ceil(Math.abs(curr.getTime() - next.getTime()) / (1000 * 60 * 60 * 24))
DiffDays(curr, next) == Ceil(Abs(curr - next), MS_PER_DAY)

\* the loop of lines 463-474, entered with currentStreak = 1 and i = 0
RECURSIVE CurrentStreakLoop(_, _, _)
CurrentStreakLoop(sortedDates, i, currentStreak) ==
    IF i >= Len(sortedDates) THEN currentStreak
    ELSE IF DiffDays(sortedDates[i], sortedDates[i + 1]) = 1
         THEN CurrentStreakLoop(sortedDates, i + 1, currentStreak + 1)
         ELSE currentStreak

\* the loop of lines 482-493, entered with tempStreak = longestStreak = 1 and i = 0
RECURSIVE LongestStreakLoop(_, _, _, _)
LongestStreakLoop(sortedDates, i, tempStreak, longestStreak) ==
    IF i >= Len(sortedDates) THEN longestStreak
    ELSE LET t == IF DiffDays(sortedDates[i], sortedDates[i + 1]) = 1
                  THEN tempStreak + 1 ELSE 1
         IN  LongestStreakLoop(sortedDates, i + 1, t, Max(longestStreak, t))

\* Array.from(uniqueDays).map(d => new Date(d)).sort((a, b) => b.getTime() - a.getTime())
SortedDates(zone, commitDates) ==
    LET uniqueDays == {toDateString(zone, commitDates[i]) : i \in DOMAIN commitDates}
    IN  SortDesc({DateOfDateString(zone, d) : d \in uniqueDays})

\* recentCommits.length > 0 ? (recentCommits.length / 6) : 0, in sixths
GraphQLCommitFrequency(zone, commitDates, clock) ==
    LET sixMonthsAgo == SetMonthMinus6(zone, clock)
        InWindow(d) == d >= sixMonthsAgo
        recentCommits == SelectSeq(commitDates, InWindow)
    IN  IF Len(recentCommits) > 0 THEN Len(recentCommits) ELSE 0

CurrentStreak(zone, sortedDates, clockToday, clockYesterday) ==
    LET today == clockToday
        yesterday == SetDateMinus1(zone, clockYesterday)
    IN  IF Len(sortedDates) > 0
        THEN LET lastCommit == sortedDates[1]
                 isRecent == \/ toDateString(zone, lastCommit) = toDateString(zone, today)
                             \/ toDateString(zone, lastCommit) = toDateString(zone, yesterday)
             IN  IF isRecent THEN CurrentStreakLoop(sortedDates, 1, 1) ELSE 0
        ELSE 0

LongestStreak(sortedDates) ==
    IF Len(sortedDates) > 0 THEN LongestStreakLoop(sortedDates, 1, 1, 1) ELSE 0

\* GraphQLGitHubService.calculateActivityData.  The three clock arguments are
\* the three "new Date()" of lines 432, 451 and 452.
calculateActivityData(repositories, zone, clock1, clock2, clock3) ==
    LET commitDates == CommitDates(repositories)
        sortedDates == SortedDates(zone, commitDates)
        totalCommits == TotalCommits(repositories)
    IN  [totalCommits |-> totalCommits,
         lastCommitDate |-> LastCommitDate(commitDates, None),
         commitFrequency |-> GraphQLCommitFrequency(zone, commitDates, clock1),
         activeDays |-> Cardinality({toDateString(zone, commitDates[i]) : i \in DOMAIN commitDates}),
         currentStreak |-> CurrentStreak(zone, sortedDates, clock2, clock3),
         longestStreak |-> LongestStreak(sortedDates),
         totalContributions |-> totalCommits]

REST_ACTIVITY_REPOS == 10

\* recentCommits = commitDates.filter(date => new Date(date) > sixMonthsAgo); length / 6
RestCommitFrequency(zone, commitDates, clock) ==
    LET sixMonthsAgo == SetMonthMinus6(zone, clock)
        InWindow(d) == d > sixMonthsAgo
    IN  Len(SelectSeq(commitDates, InWindow))

\* GitHubService.calculateActivityData (the REST fallback): the commits of the
\* first 10 non-fork repositories; a repository whose listCommits throws is skipped.
RestCalculateActivityData(repositories, zone, clock) ==
    LET NotFork(r) == ~r.isFork
        recentRepos == Slice0(SelectSeq(repositories, NotFork), REST_ACTIVITY_REPOS)
        commitDates == CommitDates(recentRepos)
    IN  [totalCommits |-> Len(commitDates),
         lastCommitDate |-> LastCommitDate(commitDates, None),
         commitFrequency |-> RestCommitFrequency(zone, commitDates, clock),
         activeDays |-> Cardinality({toDateString(zone, commitDates[i]) : i \in DOMAIN commitDates})]

-----------------------------------------------------------------------------
(* NewScoringEngine.                                                       *)
(* A Repository is [name, description, stars, language, topics,            *)
(* updated_at, has_readme, readme_content, readme_length, is_fork,         *)
(* open_issues, homepage, code_quality].  A string that is null or empty   *)
(* in the source is "" (both are falsy); readme_content is None or         *)
(* Some(the set of searched phrases the lower-cased text contains);        *)
(* code_quality is None (the REST records carry none) or Some(flags).      *)

ProfileTypes == {"student", "professional", "open-source"}

\* calculateAccountAge: (now - created) / (1000*60*60*24*365), as a fraction
calculateAccountAge(createdAt, clock) ==
    [num |-> clock - createdAt, den |-> HoursPerYear]

\* data.repositories.reduce((s, r) => s + r.stars, 0)
TotalStars(repositories) ==
    SeqSum([i \in DOMAIN repositories |-> repositories[i].stars])

STUDENT_MAX_AGE == 3
STUDENT_MAX_REPOS == 20
STUDENT_MAX_STARS == 200
OSS_MIN_STARS == 500
OSS_MIN_FOLLOWERS == 100

\* detectProfileType with the open-source test made before the student test
detectProfileTypeOssFirst(d, clock) ==
    LET accountAge == calculateAccountAge(d.user.created_at, clock)
        totalStars == TotalStars(d.repositories)
        totalRepos == Len(d.repositories)
    IN  IF totalStars > OSS_MIN_STARS \/ d.user.followers > OSS_MIN_FOLLOWERS
        THEN "open-source"
        ELSE IF /\ accountAge.num < STUDENT_MAX_AGE * accountAge.den
                /\ totalRepos <= STUDENT_MAX_REPOS
                /\ totalStars < STUDENT_MAX_STARS
             THEN "student"
             ELSE "professional"

detectProfileType(d, clock) ==
    LET accountAge == calculateAccountAge(d.user.created_at, clock)
        totalStars == TotalStars(d.repositories)
        totalRepos == Len(d.repositories)
    IN  IF /\ accountAge.num < STUDENT_MAX_AGE * accountAge.den
           /\ totalRepos <= STUDENT_MAX_REPOS
           /\ totalStars < STUDENT_MAX_STARS
        THEN "student"
        ELSE IF totalStars > OSS_MIN_STARS \/ d.user.followers > OSS_MIN_FOLLOWERS
             THEN "open-source"
             ELSE "professional"

WeightTable ==
    [student |->
        [codeQuality |-> 20, projectImpact |-> 25, currentActive |-> 20,
         productionReadiness |-> 10, technicalSkill |-> 15, communityTrust |-> 10],
     professional |->
        [codeQuality |-> 18, projectImpact |-> 15, currentActive |-> 17,
         productionReadiness |-> 25, technicalSkill |-> 15, communityTrust |-> 10],
     opensource |->
        [codeQuality |-> 20, projectImpact |-> 15, currentActive |-> 15,
         productionReadiness |-> 20, technicalSkill |-> 15, communityTrust |-> 15]]

\* getWeights with the student table's productionReadiness raised to 15
getWeightsStudentSkew(p) ==
    IF p = "student" THEN [WeightTable.student EXCEPT !.productionReadiness = 15]
    ELSE IF p = "open-source" THEN WeightTable.opensource
    ELSE WeightTable.professional

\* weights[profileType] || weights.professional
getWeights(p) ==
    IF p = "student" THEN WeightTable.student
    ELSE IF p = "open-source" THEN WeightTable.opensource
    ELSE WeightTable.professional

MAX_SCORED_REPOS == 6

\* stable insertion of r into a list sorted by updated_at descending
RECURSIVE InsertByUpdated(_, _)
InsertByUpdated(sorted, r) ==
    IF sorted = <<>> THEN <<r>>
    ELSE IF r.updated_at - Head(sorted).updated_at > 0
         THEN <<r>> \o sorted
         ELSE <<Head(sorted)>> \o InsertByUpdated(Tail(sorted), r)

\* .sort((a, b) => new Date(b.updated_at).getTime() - new Date(a.updated_at).getTime())
RECURSIVE SortByUpdatedDesc(_)
SortByUpdatedDesc(s) ==
    IF s = <<>> THEN <<>>
    ELSE InsertByUpdated(SortByUpdatedDesc(SubSeq(s, 1, Len(s) - 1)), s[Len(s)])

\* pinnedRepos.includes(name)
Includes(list, x) == \E i \in DOMAIN list : list[i] = x

\* repositories.filter(r => pinnedRepos.includes(r.name))
PinnedOf(d) ==
    LET IsPinned(r) == Includes(d.pinnedRepos, r.name)
    IN  SelectSeq(d.repositories, IsPinned)

\* selectReposForScoring filling the remaining slots with forks too
selectReposForScoringWithForks(d) ==
    LET pinned == PinnedOf(d)
        Filler(r) == ~Includes(d.pinnedRepos, r.name)
        remaining == Slice0(SortByUpdatedDesc(SelectSeq(d.repositories, Filler)),
                            MAX_SCORED_REPOS - Len(pinned))
    IN  Slice0(pinned \o remaining, MAX_SCORED_REPOS)

selectReposForScoring(d) ==
    LET pinned == PinnedOf(d)
        Filler(r) == ~Includes(d.pinnedRepos, r.name) /\ ~r.is_fork
        remaining == Slice0(SortByUpdatedDesc(SelectSeq(d.repositories, Filler)),
                            MAX_SCORED_REPOS - Len(pinned))
    IN  Slice0(pinned \o remaining, MAX_SCORED_REPOS)

Count(s, P(_)) == Len(SelectSeq(s, P))

Suggestion(id, points, category, difficulty, priority) ==
    [id |-> id, points |-> points, category |-> category,
     difficulty |-> difficulty, priority |-> priority]

\* a feedback string: its fixed text, the number interpolated into it (0 when
\* none) and the language names interpolated into it
Feedback(text, n, langs) == [text |-> text, n |-> n, langs |-> langs]

Dimension(name, score, weight, feedback, sugg) ==
    [name |-> name, score |-> score, weight |-> weight, feedback |-> feedback,
     suggestions |-> sugg]

HasLinting(r) == r.code_quality # None /\ r.code_quality[1].hasLinting
HasCI(r) == r.code_quality # None /\ r.code_quality[1].hasCI
HasTests(r) == r.code_quality # None /\ r.code_quality[1].hasTests

\* r.readme_content?.toLowerCase().includes(phrase)
ReadmeIncludes(r, phrase) == r.readme_content # None /\ phrase \in r.readme_content[1]

\* Code Quality with every ratio of an empty selection taken as 1
scoreCodeQualityVacuous(d, repos, weight) ==
    LET HasReadme(r) == r.has_readme
        Organized(r) == r.description # "" /\ Len(r.topics) > 0
        Ratio(k) == IF Len(repos) = 0 THEN [num |-> 1, den |-> 1]
                    ELSE [num |-> k, den |-> Len(repos)]
        a == Ratio(Count(repos, HasReadme))
        b == Ratio(Count(repos, Organized))
        c == Ratio(Count(repos, HasLinting))
    IN  Dimension("Code Quality", Round(a.num * 50 + b.num * 30 + c.num * 20, a.den),
                  weight, Feedback("", 0, <<>>), <<>>)

\* Code Quality with the README and organization budgets exchanged
scoreCodeQualitySwapped(d, repos, weight) ==
    LET HasReadme(r) == r.has_readme
        Organized(r) == r.description # "" /\ Len(r.topics) > 0
        score == Round(Count(repos, HasReadme) * 30 + Count(repos, Organized) * 50
                         + Count(repos, HasLinting) * 20, Max(Len(repos), 1))
    IN  Dimension("Code Quality", score, weight, Feedback("", 0, <<>>), <<>>)

scoreCodeQuality(d, repos, weight) ==
    LET n == Len(repos)
        HasReadme(r) == r.has_readme
        Organized(r) == r.description # "" /\ Len(r.topics) > 0
        reposWithReadme == Count(repos, HasReadme)
        organizedRepos == Count(repos, Organized)
        reposWithLinting == Count(repos, HasLinting)
        score == Round(reposWithReadme * 50 + organizedRepos * 30 + reposWithLinting * 20,
                       Max(n, 1))
        sugg ==
            (IF reposWithReadme < n
             THEN <<Suggestion("add-readme", (n - reposWithReadme) * 8,
                               "Code Quality", "easy", "critical")>>
             ELSE <<>>)
            \o (IF organizedRepos < n
                THEN <<Suggestion("add-descriptions", 5, "Code Quality", "easy", "high")>>
                ELSE <<>>)
            \o (IF reposWithLinting = 0
                THEN <<Suggestion("add-linting", 6, "Code Quality", "easy", "medium")>>
                ELSE <<>>)
        feedback == IF reposWithReadme = n
                    THEN Feedback("Excellent documentation across all top repos!", n, <<>>)
                    ELSE Feedback("repos need READMEs", n - reposWithReadme, <<>>)
    IN  Dimension("Code Quality", score, weight, feedback, sugg)

\* Project Impact with 7 points for every repository with a demo, uncapped
scoreProjectImpactUncapped(d, repos, weight) ==
    LET n == Len(repos)
        HasDemo(r) == \/ ReadmeIncludes(r, "vercel.app")
                      \/ ReadmeIncludes(r, "netlify.app")
                      \/ ReadmeIncludes(r, "github.io")
                      \/ r.homepage # ""
        HasStory(r) == \/ ReadmeIncludes(r, "why i built")
                       \/ ReadmeIncludes(r, "problem")
                       \/ ReadmeIncludes(r, "motivation")
        Complete(r) == r.description # "" /\ r.readme_length > 200
        m == Max(n, 1)
        score == Round(Count(repos, HasDemo) * 7 * m + Count(repos, HasStory) * 35
                         + Count(repos, Complete) * 30, m)
    IN  Dimension("Project Impact", score, weight, Feedback("", 0, <<>>), <<>>)

scoreProjectImpact(d, repos, weight) ==
    LET n == Len(repos)
        HasDemo(r) == \/ ReadmeIncludes(r, "vercel.app")
                      \/ ReadmeIncludes(r, "netlify.app")
                      \/ ReadmeIncludes(r, "github.io")
                      \/ r.homepage # ""
        HasStory(r) == \/ ReadmeIncludes(r, "why i built")
                       \/ ReadmeIncludes(r, "problem")
                       \/ ReadmeIncludes(r, "motivation")
        Complete(r) == r.description # "" /\ r.readme_length > 200
        reposWithDemo == Count(repos, HasDemo)
        reposWithStory == Count(repos, HasStory)
        completeRepos == Count(repos, Complete)
        m == Max(n, 1)
        score == Round(Min(reposWithDemo * 7, 35) * m + reposWithStory * 35
                         + completeRepos * 30, m)
        sugg ==
            (IF reposWithDemo = 0
             THEN <<Suggestion("deploy-project", 14, "Project Impact", "easy", "critical")>>
             ELSE <<>>)
            \o (IF reposWithStory < 2
                THEN <<Suggestion("add-storytelling", 7, "Project Impact", "easy", "high")>>
                ELSE <<>>)
        feedback == IF reposWithDemo > 0
                    THEN Feedback("live demos show real-world impact!", reposWithDemo, <<>>)
                    ELSE Feedback("Deploy projects to show they actually work", 0, <<>>)
    IN  Dimension("Project Impact", score, weight, feedback, sugg)

\* commitFrequency is in sixths: commitFrequency >= k is count >= k * 6
scoreCurrentActive(d, weight, clock) ==
    LET last == d.activityData.lastCommitDate
        daysSince == Floor(clock - last[1], MS_PER_DAY)
        recency == IF last = None THEN 0
                   ELSE IF daysSince <= 7 THEN 50
                   ELSE IF daysSince <= 30 THEN 40
                   ELSE IF daysSince <= 90 THEN 25
                   ELSE 10
        commitFrequency == d.activityData.commitFrequency
        consistency == IF commitFrequency >= 20 * FREQ_MONTHS THEN 50
                       ELSE IF commitFrequency >= 10 * FREQ_MONTHS THEN 35
                       ELSE IF commitFrequency >= 5 * FREQ_MONTHS THEN 20
                       ELSE 5
        sugg ==
            (IF last # None /\ daysSince > 30
             THEN <<Suggestion("commit-recently", 10, "Current & Active", "easy", "critical")>>
             ELSE <<>>)
            \o (IF commitFrequency < 5 * FREQ_MONTHS
                THEN <<Suggestion("commit-consistently", 15, "Current & Active", "medium", "high")>>
                ELSE <<>>)
        feedback == IF commitFrequency >= 10 * FREQ_MONTHS
                    THEN Feedback("Excellent activity: commits/month!",
                                  Round(commitFrequency, FREQ_MONTHS), <<>>)
                    ELSE Feedback("Low activity. Code regularly to show current skills.",
                                  Round(commitFrequency, FREQ_MONTHS), <<>>)
    IN  Dimension("Current & Active", recency + consistency, weight, feedback, sugg)

\* Production Readiness starting from 0 when no selected repository carries
\* code-quality flags
scoreProductionReadinessPenalized(d, repos, weight) ==
    LET Flagged(r) == r.code_quality # None
        base == IF Count(repos, Flagged) = 0 THEN 0 ELSE 50
        score == base + (IF Count(repos, HasCI) > 0 THEN 25 ELSE 0)
                      + (IF Count(repos, HasTests) > 0 THEN 20 ELSE 0)
    IN  Dimension("Production Readiness", Min(score, 100), weight, Feedback("", 0, <<>>), <<>>)

scoreProductionReadiness(d, repos, weight) ==
    LET reposWithCI == Count(repos, HasCI)
        reposWithTests == Count(repos, HasTests)
        score == 50 + (IF reposWithCI > 0 THEN 25 ELSE 0)
                    + (IF reposWithTests > 0 THEN 20 ELSE 0)
        sugg ==
            (IF reposWithCI > 0 THEN <<>>
             ELSE <<Suggestion("add-cicd", 25, "Production Readiness", "easy", "medium")>>)
            \o (IF reposWithTests > 0 THEN <<>>
                ELSE <<Suggestion("add-tests", 20, "Production Readiness", "medium", "medium")>>)
        feedback == IF score > 70
                    THEN Feedback("Production-ready code with CI/CD and tests!", 0, <<>>)
                    ELSE Feedback("Add CI/CD and tests to show professional workflows", 0, <<>>)
    IN  Dimension("Production Readiness", Min(score, 100), weight, feedback, sugg)

modernLanguages == {"TypeScript", "Python", "Java", "Kotlin", "Swift", "Go", "Rust"}
frameworks == {"react", "vue", "angular", "nextjs", "svelte", "express", "django", "spring"}

\* String.prototype.toLowerCase on the topic strings of the model
toLowerCase(t) ==
    CASE t = "React" -> "react"
      [] t = "Django" -> "django"
      [] t = "CLI" -> "cli"
      [] OTHER -> t

\* Technical Skill with 10 points for every framework repository, uncapped
scoreTechnicalSkillUncapped(d, repos, weight) ==
    LET topLanguages == DOMAIN d.languageStats
        uniqueLangs == Cardinality(topLanguages)
        diversity == IF uniqueLangs >= 5 THEN 40
                     ELSE IF uniqueLangs >= 3 THEN 30
                     ELSE IF uniqueLangs >= 2 THEN 20
                     ELSE 10
        hasModern == \E lang \in topLanguages : lang \in modernLanguages
        UsesFramework(r) == \E i \in DOMAIN r.topics : toLowerCase(r.topics[i]) \in frameworks
        score == diversity + (IF hasModern THEN 30 ELSE 0) + Count(repos, UsesFramework) * 10
    IN  Dimension("Technical Skill", score, weight, Feedback("", 0, <<>>), <<>>)

scoreTechnicalSkill(d, repos, weight) ==
    LET topLanguages == DOMAIN d.languageStats
        uniqueLangs == Cardinality(topLanguages)
        diversity == IF uniqueLangs >= 5 THEN 40
                     ELSE IF uniqueLangs >= 3 THEN 30
                     ELSE IF uniqueLangs >= 2 THEN 20
                     ELSE 10
        hasModern == \E lang \in topLanguages : lang \in modernLanguages
        UsesFramework(r) == \E i \in DOMAIN r.topics : toLowerCase(r.topics[i]) \in frameworks
        frameworkRepos == Count(repos, UsesFramework)
        score == diversity + (IF hasModern THEN 30 ELSE 0) + Min(frameworkRepos * 10, 30)
        sugg == IF uniqueLangs < 3
                THEN <<Suggestion("learn-language", 10, "Technical Skill", "hard", "low")>>
                ELSE <<>>
        feedback == IF uniqueLangs >= 3
                    THEN Feedback("Strong technical breadth", 0, Slice0(d.languageKeys, 3))
                    ELSE Feedback("Limited to. Learn 1-2 more languages.", 0,
                                  Slice0(d.languageKeys, 1))
    IN  Dimension("Technical Skill", score, weight, feedback, sugg)

\* Community Trust with the two star tiers added up
scoreCommunityTrustCumulative(d, weight) ==
    LET hasIssues == \E i \in DOMAIN d.repositories : d.repositories[i].open_issues > 0
        totalStars == TotalStars(d.repositories)
        rawPoints == (IF hasIssues THEN 3 ELSE 0) + (IF totalStars >= 200 THEN 2 ELSE 0)
                     + (IF totalStars >= 50 THEN 1 ELSE 0)
    IN  Dimension("Community Trust", Min(rawPoints * 10, 100), weight,
                  Feedback("", 0, <<>>), <<>>)

\* Community Trust emitting its suggestion under the id of a Current & Active one
scoreCommunityTrustSharedId(d, weight) ==
    LET hasIssues == \E i \in DOMAIN d.repositories : d.repositories[i].open_issues > 0
        totalStars == TotalStars(d.repositories)
        rawPoints == (IF hasIssues THEN 3 ELSE 0)
                     + (IF totalStars >= 200 THEN 2 ELSE IF totalStars >= 50 THEN 1 ELSE 0)
        sugg == IF hasIssues THEN <<>>
                ELSE <<Suggestion("commit-consistently", 3, "Community Trust", "easy", "low")>>
    IN  Dimension("Community Trust", Min(rawPoints * 10, 100), weight,
                  Feedback("", 0, <<>>), sugg)

scoreCommunityTrust(d, weight) ==
    LET hasIssues == \E i \in DOMAIN d.repositories : d.repositories[i].open_issues > 0
        totalStars == TotalStars(d.repositories)
        rawPoints == (IF hasIssues THEN 3 ELSE 0)
                     + (IF totalStars >= 200 THEN 2 ELSE IF totalStars >= 50 THEN 1 ELSE 0)
        sugg == IF hasIssues THEN <<>>
                ELSE <<Suggestion("create-issues", 3, "Community Trust", "easy", "low")>>
        feedback == IF totalStars > 50
                    THEN Feedback("stars show community validation!", totalStars, <<>>)
                    ELSE Feedback("Build impressive projects to earn stars", 0, <<>>)
    IN  Dimension("Community Trust", Min(rawPoints * 10, 100), weight, feedback, sugg)

priorityOrder == [critical |-> 0, high |-> 1, medium |-> 2, low |-> 3]

\* the comparator ordering by points before priority
CompareSuggestionsPointsFirst(a, b) ==
    LET priorityDiff == priorityOrder[a.priority] - priorityOrder[b.priority]
    IN  IF b.points - a.points # 0 THEN b.points - a.points ELSE priorityDiff

\* the comparator of prioritizeSuggestions
CompareSuggestions(a, b) ==
    LET priorityDiff == priorityOrder[a.priority] - priorityOrder[b.priority]
    IN  IF priorityDiff # 0 THEN priorityDiff ELSE b.points - a.points

\* an unstable insertion: x goes before the elements it ties with
RECURSIVE InsertSuggestionBeforeTies(_, _)
InsertSuggestionBeforeTies(sorted, x) ==
    IF sorted = <<>> THEN <<x>>
    ELSE IF CompareSuggestions(x, Head(sorted)) <= 0
         THEN <<x>> \o sorted
         ELSE <<Head(sorted)>> \o InsertSuggestionBeforeTies(Tail(sorted), x)

\* Array.prototype.sort is stable (ECMAScript 2019): x goes after every element
\* that does not compare greater than it
RECURSIVE InsertSuggestion(_, _)
InsertSuggestion(sorted, x) ==
    IF sorted = <<>> THEN <<x>>
    ELSE IF CompareSuggestions(x, Head(sorted)) < 0
         THEN <<x>> \o sorted
         ELSE <<Head(sorted)>> \o InsertSuggestion(Tail(sorted), x)

\* a prioritizer that overwrites the points of what it sorts
RECURSIVE prioritizeSuggestionsRewriting(_)
prioritizeSuggestionsRewriting(s) ==
    IF s = <<>> THEN <<>>
    ELSE InsertSuggestion(prioritizeSuggestionsRewriting(SubSeq(s, 1, Len(s) - 1)),
                          [s[Len(s)] EXCEPT !.points = 0])

RECURSIVE prioritizeSuggestions(_)
prioritizeSuggestions(s) ==
    IF s = <<>> THEN <<>>
    ELSE InsertSuggestion(prioritizeSuggestions(SubSeq(s, 1, Len(s) - 1)), s[Len(s)])

TOP_SUGGESTIONS == 5
TOP_REPOS == 5
STRENGTH_MIN_SCORE == 70

\* stable insertion of r into a list sorted by stars descending
RECURSIVE InsertByStars(_, _)
InsertByStars(sorted, r) ==
    IF sorted = <<>> THEN <<r>>
    ELSE IF r.stars - Head(sorted).stars > 0
         THEN <<r>> \o sorted
         ELSE <<Head(sorted)>> \o InsertByStars(Tail(sorted), r)

RECURSIVE SortByStarsDesc(_)
SortByStarsDesc(s) ==
    IF s = <<>> THEN <<>>
    ELSE InsertByStars(SortByStarsDesc(SubSeq(s, 1, Len(s) - 1)), s[Len(s)])

selectTopRepos(d) ==
    LET NotFork(r) == ~r.is_fork
    IN  IF Len(d.pinnedRepos) > 0
        THEN Slice0(PinnedOf(d), TOP_REPOS)
        ELSE Slice0(SortByStarsDesc(SelectSeq(d.repositories, NotFork)), TOP_REPOS)

identifyStrengths(dimensions) ==
    LET Strong(dim) == dim.score >= STRENGTH_MIN_SCORE
        strong == SelectSeq(dimensions, Strong)
    IN  [i \in DOMAIN strong |-> strong[i].name]

\* the weighted total without the division by 100
WeightedTotalUndivided(dimensions) ==
    Round(SeqSum([i \in DOMAIN dimensions |-> dimensions[i].score * dimensions[i].weight]), 1)

\* the weighted total cut down to an integer instead of rounded
WeightedTotalTruncated(dimensions) ==
    SeqSum([i \in DOMAIN dimensions |-> dimensions[i].score * dimensions[i].weight]) \div 100

\* dimensions.reduce((sum, dim) => sum + (dim.score * dim.weight) / 100, 0), rounded
WeightedTotal(dimensions) ==
    Round(SeqSum([i \in DOMAIN dimensions |-> dimensions[i].score * dimensions[i].weight]), 100)

\* NewScoringEngine.calculateScore.  clockAge is the "new Date()" of
\* calculateAccountAge, clockActive the "Date.now()" of scoreCurrentActive.
calculateScore(d, clockAge, clockActive) ==
    LET pt == detectProfileType(d, clockAge)
        weights == getWeights(pt)
        repos == selectReposForScoring(d)
        dimensions ==
            <<scoreCodeQuality(d, repos, weights.codeQuality),
              scoreProjectImpact(d, repos, weights.projectImpact),
              scoreCurrentActive(d, weights.currentActive, clockActive),
              scoreProductionReadiness(d, repos, weights.productionReadiness),
              scoreTechnicalSkill(d, repos, weights.technicalSkill),
              scoreCommunityTrust(d, weights.communityTrust)>>
        allSuggestions == Flat([i \in DOMAIN dimensions |-> dimensions[i].suggestions])
    IN  [totalScore |-> WeightedTotal(dimensions),
         profileType |-> pt,
         dimensions |-> dimensions,
         topRepos |-> selectTopRepos(d),
         strengths |-> identifyStrengths(dimensions),
         topSuggestions |-> Slice0(prioritizeSuggestions(allSuggestions), TOP_SUGGESTIONS)]

\* Object.keys of the language statistics: the languages in the order in which
\* calculateLanguageStats first meets them
RECURSIVE LanguageKeys(_)
LanguageKeys(repositories) ==
    IF repositories = <<>> THEN <<>>
    ELSE LET before == LanguageKeys(SubSeq(repositories, 1, Len(repositories) - 1))
             language == repositories[Len(repositories)].language
         IN  IF language = "" \/ language \in Range(before) THEN before
             ELSE Append(before, language)

\* calculateLanguageStats: language -> number of repositories with it
calculateLanguageStats(repositories) ==
    LET langs == {repositories[i].language : i \in DOMAIN repositories} \ {""}
    IN  [l \in langs |-> Cardinality({i \in DOMAIN repositories : repositories[i].language = l})]

-----------------------------------------------------------------------------
(* Inputs.                                                                 *)

MaxCommits == 3

\* the instants at which the operations are run: Nov 2 2026 12:00, Nov 1 2026
\* 23:00 and Aug 31 2026 12:00 (standard time)
NowChoices == {MakeLocal(0, 10, 2, 12), MakeLocal(0, 10, 1, 23), MakeLocal(0, 7, 31, 12)}

\* commit instants around t: earlier today, the three days before, five days
\* before, a day ahead (a commit dated in the future), and around t - 6 months
CommitInstants(zone, t) ==
    {t - 1, t - 13, t - 24, t - 48, t - 120, t + 24}
    \cup {SetMonthMinus6(zone, t) + k : k \in {-1, 0, 1}}

SeqsUpTo(S, n) == UNION {[1..k -> S] : k \in 0..n}

History(nodes, extra) == Some([totalCount |-> Len(nodes) + extra, nodes |-> nodes])

RawRepo(name, isFork, history) == [name |-> name, isFork |-> isFork, history |-> history]

\* one repository of the user with up to MaxCommits commits or with 30 commits
\* of one day, alone or followed by a repository without history or by a fork
\* with two commits
RawInputs(zone, t) ==
    LET lists == SeqsUpTo(CommitInstants(zone, t), MaxCommits)
                 \cup {Rep(30, t - 120), Rep(30, t - 120) \o <<SetMonthMinus6(zone, t) - 1>>}
        second == {<<>>,
                   <<RawRepo("empty", FALSE, None)>>,
                   <<RawRepo("forked", TRUE, History(<<t - 24, t - 48>>, 5))>>}
    IN  {<<RawRepo("own", FALSE, History(cs, 0))>> \o r2 : cs \in lists, r2 \in second}

NoData ==
    [user |-> [created_at |-> 0, followers |-> 0],
     repositories |-> <<>>, pinnedRepos |-> <<>>, languageStats |-> <<>>,
     languageKeys |-> <<>>,
     activityData |-> [lastCommitDate |-> None, commitFrequency |-> 0, activeDays |-> 0,
                       currentStreak |-> 0, longestStreak |-> 0, totalContributions |-> 0]]

-----------------------------------------------------------------------------
(* SpecActivity: the two activity aggregators on the same input.           *)

InitActivity ==
    /\ tz \in Zones
    /\ now \in NowChoices
    /\ rawRepositories \in RawInputs(tz, now)
    /\ activityData = None
    /\ data = NoData
    /\ scoredRepos = <<>>
    /\ profileType = None
    /\ portfolio = None
    /\ suggestions = <<>>
    /\ prioritized = <<>>
    /\ topSuggestions = <<>>
    /\ previous = None
    /\ clockReads = <<>>
    /\ response = None
    /\ route = None
    /\ legacy = None
    /\ page = None
    /\ pc = "start"

\* GraphQLGitHubService.calculateActivityData(rawRepositories)
GraphQLActivity ==
    /\ pc = "start"
    /\ activityData' = Some(calculateActivityData(rawRepositories, tz, now, now, now))
    /\ pc' = "graphql"
    /\ UNCHANGED <<response, route, legacy, page>>
    /\ UNCHANGED <<previous, clockReads>>
    /\ UNCHANGED <<tz, now, rawRepositories, data, scoredRepos, profileType, portfolio,
                   suggestions, prioritized, topSuggestions>>

\* GitHubService.calculateActivityData(username, repositories)
RestActivity ==
    /\ pc = "start"
    /\ activityData' = Some(RestCalculateActivityData(rawRepositories, tz, now))
    /\ pc' = "rest"
    /\ UNCHANGED <<response, route, legacy, page>>
    /\ UNCHANGED <<previous, clockReads>>
    /\ UNCHANGED <<tz, now, rawRepositories, data, scoredRepos, profileType, portfolio,
                   suggestions, prioritized, topSuggestions>>

NextActivity == GraphQLActivity \/ RestActivity

SpecActivity == InitActivity /\ [][NextActivity]_vars

-----------------------------------------------------------------------------
(* Snapshots.  A repository name is a number; repository i of a generated  *)
(* snapshot is named i.                                                    *)

NoFlags == [hasCI |-> FALSE, hasTests |-> FALSE, hasTypeScript |-> FALSE, hasLinting |-> FALSE]

\* a repository with nothing filled in, as the REST service delivers it
BareRepo(name, updated, fork) ==
    [name |-> name, description |-> "", stars |-> 0, language |-> "", topics |-> <<>>,
     updated_at |-> updated, has_readme |-> FALSE, readme_content |-> None,
     readme_length |-> 0, is_fork |-> fork, open_issues |-> 0, homepage |-> "",
     code_quality |-> None]

RepoKinds == {"bare", "documented", "showcase", "story", "popular"}

Repo(kind, name, updated, fork) ==
    LET b == BareRepo(name, updated, fork)
    IN  CASE kind = "documented" ->
               [b EXCEPT !.description = "a tool", !.topics = <<"CLI">>, !.stars = 10,
                         !.language = "JavaScript", !.has_readme = TRUE,
                         !.readme_content = Some({}), !.readme_length = 150,
                         !.code_quality = Some(NoFlags)]
          [] kind = "showcase" ->
               [b EXCEPT !.description = "an app", !.topics = <<"React", "web">>,
                         !.stars = 60, !.language = "TypeScript", !.has_readme = TRUE,
                         !.readme_content = Some({"vercel.app", "motivation"}),
                         !.readme_length = 900, !.open_issues = 2,
                         !.homepage = "https://app.example",
                         !.code_quality = Some([hasCI |-> TRUE, hasTests |-> TRUE,
                                                hasTypeScript |-> TRUE, hasLinting |-> TRUE])]
          [] kind = "story" ->
               [b EXCEPT !.stars = 150, !.language = "Python", !.has_readme = TRUE,
                         !.readme_content = Some({"problem"}), !.readme_length = 300,
                         !.code_quality = Some([NoFlags EXCEPT !.hasTests = TRUE])]
          [] kind = "popular" ->
               [b EXCEPT !.description = "a library", !.topics = <<"Django">>,
                         !.stars = 501, !.language = "Go",
                         !.code_quality = Some([NoFlags EXCEPT !.hasLinting = TRUE,
                                                               !.hasCI = TRUE])]
          [] OTHER -> b

Snapshot(created, followers, repositories, pinnedRepos, activity) ==
    [user |-> [created_at |-> created, followers |-> followers],
     repositories |-> repositories,
     pinnedRepos |-> pinnedRepos,
     languageStats |-> calculateLanguageStats(repositories),
     languageKeys |-> LanguageKeys(repositories),
     activityData |-> activity]

MaxRepos == 7
MaxProfileRepos == 21
MaxSelectRepos == 12
MaxPinned == 2
MaxPinnable == 4
MaxSuggestions == 6

\* the instant the scoring runs are made at: Nov 2 2026 12:00
ScoreNow == MakeLocal(0, 10, 2, 12)

\* update instants that repeat and are not monotonic in the list position
UpdatedAt(i, step) == ((i * step) % 5) * MS_PER_DAY

\* sequences without repetition of at most k names out of 1..n
InjectiveSeqs(n, k) ==
    {s \in SeqsUpTo(1..n, k) : \A i, j \in DOMAIN s : i # j => s[i] # s[j]}

\* the metrics the aggregator returns for two repositories with 60 commits
\* each, all made in the hour before ScoreNow (commitFrequency in sixths)
BusyActivity ==
    [totalCommits |-> 120, lastCommitDate |-> Some(ScoreNow - 1), commitFrequency |-> 120,
     activeDays |-> 1, currentStreak |-> 1, longestStreak |-> 1, totalContributions |-> 120]

\* the activity metrics of commit histories the aggregator is run on
ActivityChoices ==
    {calculateActivityData(<<RawRepo(1, FALSE, History(cs, 0))>>, "UTC",
                           ScoreNow, ScoreNow, ScoreNow) :
        cs \in {<<>>,
                Rep(30, ScoreNow - 10 * MS_PER_DAY),
                <<ScoreNow - 40 * MS_PER_DAY>>,
                <<ScoreNow - 100 * MS_PER_DAY>>}}
    \cup {BusyActivity}

\* snapshots of up to MaxRepos repositories whose kinds repeat a pattern of one
\* or two kinds, with every second repository a fork or none
ScoreSnapshots ==
    {Snapshot(ScoreNow - age, followers,
              [i \in 1..n |-> Repo(mix[((i - 1) % Len(mix)) + 1], i, UpdatedAt(i, 3),
                                   forks /\ i % 2 = 0)],
              pinned, activity) :
        age \in {HoursPerYear, 4 * HoursPerYear},
        followers \in {0, 101},
        n \in 0..MaxRepos,
        mix \in {m \in SeqsUpTo(RepoKinds, 2) : m # <<>>},
        forks \in BOOLEAN,
        pinned \in {<<>>, <<2, 1>>, <<6, 5, 4, 3, 2, 1>>},
        activity \in ActivityChoices}

\* suggestions the prioritizer is run on directly: equal priority and points
\* under different ids, and a low suggestion worth more than a critical one
SuggestionPool ==
    {Suggestion("fix-a", 1, "Code Quality", "easy", "critical"),
     Suggestion("fix-b", 1, "Project Impact", "easy", "critical"),
     Suggestion("polish", 50, "Technical Skill", "hard", "low"),
     Suggestion("extend", 50, "Community Trust", "medium", "high")}

-----------------------------------------------------------------------------
(* SpecScore: NewScoringEngine.calculateScore on snapshots, and its step 7 *)
(* (prioritize, keep the first 5) on suggestion lists.                     *)

InitScore ==
    /\ tz = "UTC"
    /\ now = ScoreNow
    /\ rawRepositories = <<>>
    /\ activityData = None
    /\ scoredRepos = <<>>
    /\ profileType = None
    /\ portfolio = None
    /\ prioritized = <<>>
    /\ topSuggestions = <<>>
    /\ previous = None
    /\ clockReads = <<>>
    /\ response = None
    /\ route = None
    /\ legacy = None
    /\ page = None
    /\ \/ /\ data \in {d \in ScoreSnapshots :
                         \A i \in DOMAIN d.pinnedRepos : d.pinnedRepos[i] <= Len(d.repositories)}
          /\ suggestions = <<>>
          /\ pc = "start"
       \/ /\ data = NoData
          /\ suggestions \in SeqsUpTo(SuggestionPool, MaxSuggestions)
          /\ pc = "collected"

\* NewScoringEngine.calculateScore(data), its two clock reads returning the
\* same instant (SpecRepeat lets the clock advance between them)
CalculateScore ==
    /\ pc = "start"
    /\ LET result == calculateScore(data, now, now)
       IN  /\ portfolio' = Some(result)
           /\ profileType' = Some(result.profileType)
           /\ scoredRepos' = selectReposForScoring(data)
           /\ suggestions' = Flat([i \in DOMAIN result.dimensions |->
                                     result.dimensions[i].suggestions])
           /\ prioritized' = prioritizeSuggestions(suggestions')
           /\ topSuggestions' = result.topSuggestions
    /\ pc' = "scored"
    /\ UNCHANGED <<response, route, legacy, page>>
    /\ UNCHANGED <<previous, clockReads>>
    /\ UNCHANGED <<tz, now, rawRepositories, activityData, data>>

\* this.prioritizeSuggestions(allSuggestions).slice(0, 5)
Prioritize ==
    /\ pc = "collected"
    /\ prioritized' = prioritizeSuggestions(suggestions)
    /\ topSuggestions' = Slice0(prioritizeSuggestions(suggestions), TOP_SUGGESTIONS)
    /\ pc' = "prioritized"
    /\ UNCHANGED <<response, route, legacy, page>>
    /\ UNCHANGED <<previous, clockReads>>
    /\ UNCHANGED <<tz, now, rawRepositories, activityData, data, scoredRepos, profileType,
                   portfolio, suggestions>>

NextScore == CalculateScore \/ Prioritize

SpecScore == InitScore /\ [][NextScore]_vars

-----------------------------------------------------------------------------
(* SpecProfile: the profile classifier around its thresholds.              *)

\* accounts created 1 year, 3 years less an hour, 3 years, 3 years and an hour ago
ProfileAges == {HoursPerYear, 3 * HoursPerYear - 1, 3 * HoursPerYear, 3 * HoursPerYear + 1}

\* up to MaxProfileRepos repositories; the first carries `first` stars and
\* every other one `each`
ProfileSnapshots ==
    {Snapshot(ScoreNow - age, followers,
              [i \in 1..n |-> [BareRepo(i, UpdatedAt(i, 3), FALSE)
                                 EXCEPT !.stars = IF i = 1 THEN first ELSE each]],
              <<>>, NoData.activityData) :
        age \in ProfileAges,
        followers \in {0, 100, 101},
        n \in 0..MaxProfileRepos,
        first \in {0, 180, 199, 200, 500, 501},
        each \in {0, 1}}

InitProfile ==
    /\ tz = "UTC"
    /\ now = ScoreNow
    /\ rawRepositories = <<>>
    /\ activityData = None
    /\ data \in ProfileSnapshots
    /\ scoredRepos = <<>>
    /\ profileType = None
    /\ portfolio = None
    /\ suggestions = <<>>
    /\ prioritized = <<>>
    /\ topSuggestions = <<>>
    /\ previous = None
    /\ clockReads = <<>>
    /\ response = None
    /\ route = None
    /\ legacy = None
    /\ page = None
    /\ pc = "start"

\* NewScoringEngine.detectProfileType(data)
DetectProfileType ==
    /\ pc = "start"
    /\ profileType' = Some(detectProfileType(data, now))
    /\ pc' = "classified"
    /\ UNCHANGED <<response, route, legacy, page>>
    /\ UNCHANGED <<previous, clockReads>>
    /\ UNCHANGED <<tz, now, rawRepositories, activityData, data, scoredRepos, portfolio,
                   suggestions, prioritized, topSuggestions>>

NextProfile == DetectProfileType

SpecProfile == InitProfile /\ [][NextProfile]_vars

-----------------------------------------------------------------------------
(* SpecSelect: the repository selector.                                    *)

\* which repositories of a list are forks
ForkPatterns == {"none", "all", "even", "third"}

IsForkAt(pattern, i) ==
    CASE pattern = "all" -> TRUE
      [] pattern = "even" -> i % 2 = 0
      [] pattern = "third" -> i % 3 = 0
      [] OTHER -> FALSE

\* up to MaxSelectRepos repositories; pinned lists are every list of up to
\* MaxPinned distinct names among the first MaxPinnable, and the first 6 names
\* in list order and reversed
SelectSnapshots ==
    {Snapshot(ScoreNow - HoursPerYear, 0,
              [i \in 1..n |-> Repo("documented", i, UpdatedAt(i, step), IsForkAt(forks, i))],
              pinned, NoData.activityData) :
        n \in 0..MaxSelectRepos,
        step \in {0, 1, 3},
        forks \in ForkPatterns,
        pinned \in InjectiveSeqs(MaxPinnable, MaxPinned)
                   \cup {<<1, 2, 3, 4, 5, 6>>, <<6, 5, 4, 3, 2, 1>>}}

InitSelect ==
    /\ tz = "UTC"
    /\ now = ScoreNow
    /\ rawRepositories = <<>>
    /\ activityData = None
    /\ data \in {d \in SelectSnapshots :
                   \A i \in DOMAIN d.pinnedRepos : d.pinnedRepos[i] <= Len(d.repositories)}
    /\ scoredRepos = <<>>
    /\ profileType = None
    /\ portfolio = None
    /\ suggestions = <<>>
    /\ prioritized = <<>>
    /\ topSuggestions = <<>>
    /\ previous = None
    /\ clockReads = <<>>
    /\ response = None
    /\ route = None
    /\ legacy = None
    /\ page = None
    /\ pc = "start"

\* NewScoringEngine.selectReposForScoring(data)
SelectReposForScoring ==
    /\ pc = "start"
    /\ scoredRepos' = selectReposForScoring(data)
    /\ pc' = "selected"
    /\ UNCHANGED <<response, route, legacy, page>>
    /\ UNCHANGED <<previous, clockReads>>
    /\ UNCHANGED <<tz, now, rawRepositories, activityData, data, profileType, portfolio,
                   suggestions, prioritized, topSuggestions>>

NextSelect == SelectReposForScoring

SpecSelect == InitSelect /\ [][NextSelect]_vars

-----------------------------------------------------------------------------
(* SpecRepeat: calculateScore invoked twice on one snapshot while the      *)
(* clock runs.  An invocation reads the clock twice, in calculateAccountAge *)
(* ("new Date()") and later in scoreCurrentActive ("Date.now()"); the      *)
(* clock may advance between the two reads and between the invocations.    *)

MaxTick == 2
MaxRepeatRepos == 3

\* a last commit dated one hour less than 8 days before ScoreNow, and one an
\* hour less than 31 days before it
EdgeActivity ==
    {[NoData.activityData EXCEPT !.lastCommitDate = Some(ScoreNow - days * MS_PER_DAY + 1),
                                 !.commitFrequency = 1, !.activeDays = 1,
                                 !.longestStreak = 1, !.totalContributions = 1] :
        days \in {8, 31}}

RepeatSnapshots ==
    {Snapshot(ScoreNow - age, 0,
              [i \in 1..n |-> Repo(mix[((i - 1) % Len(mix)) + 1], i, UpdatedAt(i, 3), FALSE)],
              pinned, activity) :
        age \in {HoursPerYear, 3 * HoursPerYear - 1},
        n \in 0..MaxRepeatRepos,
        mix \in {m \in SeqsUpTo(RepoKinds, 2) : m # <<>>},
        pinned \in {<<>>, <<2, 1>>},
        activity \in ActivityChoices \cup EdgeActivity}

InitRepeat ==
    /\ tz = "UTC"
    /\ now = ScoreNow
    /\ rawRepositories = <<>>
    /\ activityData = None
    /\ data \in {d \in RepeatSnapshots :
                   \A i \in DOMAIN d.pinnedRepos : d.pinnedRepos[i] <= Len(d.repositories)}
    /\ scoredRepos = <<>>
    /\ profileType = None
    /\ portfolio = None
    /\ suggestions = <<>>
    /\ prioritized = <<>>
    /\ topSuggestions = <<>>
    /\ previous = None
    /\ clockReads = <<>>
    /\ response = None
    /\ route = None
    /\ legacy = None
    /\ page = None
    /\ pc = "start"

\* the snapshot as a sort by stars applied to data.repositories itself would
\* leave it
DataAfterCalculateScoreSortedInPlace(d) ==
    [d EXCEPT !.repositories = SortByStarsDesc(d.repositories)]

\* the snapshot object after calculateScore returned: every sort of the
\* invocation works on an array made by filter or flatMap, so the snapshot is
\* as it was
DataAfterCalculateScore(d) == d

\* NewScoringEngine.calculateScore(data), the clock advancing by `tick`
\* between its two reads
Invoke ==
    /\ pc \in {"start", "scored"}
    /\ \E tick \in 0..1 :
         /\ now + tick <= ScoreNow + MaxTick
         /\ LET result == calculateScore(data, now, now + tick)
            IN  /\ portfolio' = Some(result)
                /\ profileType' = Some(result.profileType)
                /\ scoredRepos' = selectReposForScoring(data)
                /\ suggestions' = Flat([i \in DOMAIN result.dimensions |->
                                          result.dimensions[i].suggestions])
                /\ prioritized' = prioritizeSuggestions(suggestions')
                /\ topSuggestions' = result.topSuggestions
         /\ clockReads' = clockReads \o <<now, now + tick>>
         /\ now' = now + tick
    /\ previous' = portfolio
    /\ data' = DataAfterCalculateScore(data)
    /\ pc' = IF pc = "start" THEN "scored" ELSE "rescored"
    /\ UNCHANGED <<response, route, legacy, page>>
    /\ UNCHANGED <<tz, rawRepositories, activityData>>

\* time passes before or between the invocations
ClockTick ==
    /\ pc \in {"start", "scored"}
    /\ now < ScoreNow + MaxTick
    /\ now' = now + 1
    /\ UNCHANGED <<tz, rawRepositories, activityData, data, scoredRepos, profileType,
                   portfolio, suggestions, prioritized, topSuggestions, previous,
                   clockReads, response, route, legacy, page, pc>>

NextRepeat == Invoke \/ ClockTick

SpecRepeat == InitRepeat /\ [][NextRepeat]_vars

-----------------------------------------------------------------------------
(* SpecActive: calculateScore on snapshots whose activity metrics lie      *)
(* around the tiers of the Current & Active scorer.                        *)

\* hours between the last commit and ScoreNow: none, an hour, a day ahead (a
\* commit dated in the future), and either side of 7, 30 and 90 whole days
LastCommitAges ==
    {0, 1, -MS_PER_DAY} \cup
    UNION {{d * MS_PER_DAY, d * MS_PER_DAY + 23, (d + 1) * MS_PER_DAY} : d \in {7, 30, 90}}
    \cup {200 * MS_PER_DAY}

\* commits in the six-month window (commitFrequency in sixths): either side of
\* 5, 10 and 20 commits a month
WindowCommits == {0, 1, 29, 30, 59, 60, 119, 120}

\* metrics with no last commit date, and metrics of commits up to `age` ago
TierActivity ==
    {[NoData.activityData EXCEPT !.commitFrequency = c, !.totalContributions = c] :
        c \in {0, 1}}
    \cup {[NoData.activityData EXCEPT !.lastCommitDate = Some(ScoreNow - age),
                                      !.commitFrequency = c, !.activeDays = 1,
                                      !.longestStreak = 1, !.totalContributions = c + 1] :
            age \in LastCommitAges, c \in WindowCommits}

ActiveSnapshots ==
    {Snapshot(ScoreNow - HoursPerYear, 0,
              [i \in 1..n |-> Repo("documented", i, UpdatedAt(i, 3), FALSE)],
              <<>>, activity) :
        n \in {0, 1}, activity \in TierActivity}

InitActive ==
    /\ tz = "UTC"
    /\ now = ScoreNow
    /\ rawRepositories = <<>>
    /\ activityData = None
    /\ data \in ActiveSnapshots
    /\ scoredRepos = <<>>
    /\ profileType = None
    /\ portfolio = None
    /\ suggestions = <<>>
    /\ prioritized = <<>>
    /\ topSuggestions = <<>>
    /\ previous = None
    /\ clockReads = <<>>
    /\ response = None
    /\ route = None
    /\ legacy = None
    /\ page = None
    /\ pc = "start"

NextActive == CalculateScore

SpecActive == InitActive /\ [][NextActive]_vars

-----------------------------------------------------------------------------
(* SpecSkill: calculateScore on snapshots that differ in their languages   *)
(* and framework topics.                                                   *)

MaxSkillRepos == 6

\* languages handed out to the repositories in turn: with and without an
\* entry of the modern-language list
LanguagePools ==
    {<<"JavaScript", "TypeScript", "C", "PHP", "Rust">>,
     <<"JavaScript", "C", "PHP", "Ruby", "HTML">>}

\* n repositories; the first `langs` languages of the pool are handed out in
\* turn (none when langs = 0); the first `tagged` repositories carry a
\* framework topic, the others another topic; one repository may be a fork
SkillSnapshots ==
    {Snapshot(ScoreNow - HoursPerYear, 0,
              [i \in 1..n |->
                 [BareRepo(i, UpdatedAt(i, 3), i = fork) EXCEPT
                    !.language = IF langs = 0 THEN "" ELSE pool[((i - 1) % langs) + 1],
                    !.topics = IF i <= tagged
                               THEN (IF i % 2 = 1 THEN <<"web", "React">> ELSE <<"django">>)
                               ELSE <<"CLI">>]],
              <<>>, NoData.activityData) :
        n \in 0..MaxSkillRepos, pool \in LanguagePools, langs \in 0..5,
        tagged \in 0..MaxSkillRepos, fork \in {0, 1}}

InitSkill ==
    /\ tz = "UTC"
    /\ now = ScoreNow
    /\ rawRepositories = <<>>
    /\ activityData = None
    /\ data \in SkillSnapshots
    /\ scoredRepos = <<>>
    /\ profileType = None
    /\ portfolio = None
    /\ suggestions = <<>>
    /\ prioritized = <<>>
    /\ topSuggestions = <<>>
    /\ previous = None
    /\ clockReads = <<>>
    /\ response = None
    /\ route = None
    /\ legacy = None
    /\ page = None
    /\ pc = "start"

NextSkill == CalculateScore

SpecSkill == InitSkill /\ [][NextSkill]_vars

-----------------------------------------------------------------------------
(* SpecTrust: calculateScore on snapshots around the star tiers of the     *)
(* Community Trust scorer.                                                 *)

MaxTrustRepos == 3

\* n repositories; the first carries `first` stars, every other one `each`;
\* repository `issues` (none when 0) has an open issue; the first may be a fork
TrustSnapshots ==
    {Snapshot(ScoreNow - HoursPerYear, 0,
              [i \in 1..n |->
                 [BareRepo(i, UpdatedAt(i, 3), fork /\ i = 1) EXCEPT
                    !.stars = IF i = 1 THEN first ELSE each,
                    !.open_issues = IF i = issues THEN 4 ELSE 0]],
              <<>>, NoData.activityData) :
        n \in 0..MaxTrustRepos, first \in {0, 48, 49, 50, 198, 199, 200, 2000},
        each \in {0, 1}, issues \in 0..MaxTrustRepos, fork \in BOOLEAN}

InitTrust ==
    /\ tz = "UTC"
    /\ now = ScoreNow
    /\ rawRepositories = <<>>
    /\ activityData = None
    /\ data \in TrustSnapshots
    /\ scoredRepos = <<>>
    /\ profileType = None
    /\ portfolio = None
    /\ suggestions = <<>>
    /\ prioritized = <<>>
    /\ topSuggestions = <<>>
    /\ previous = None
    /\ clockReads = <<>>
    /\ response = None
    /\ route = None
    /\ legacy = None
    /\ page = None
    /\ pc = "start"

NextTrust == CalculateScore

SpecTrust == InitTrust /\ [][NextTrust]_vars

-----------------------------------------------------------------------------
(* GraphQLGitHubService.fetchUserData: from the GraphQL response to the    *)
(* snapshot.  A response carries the pinned items and the user's own       *)
(* repositories as raw nodes [name, owner, isFork, updatedAt, language,    *)
(* history]; nodes without README and tool files are modelled.             *)

\* pinnedItems(first: 6, types: REPOSITORY)
PINNED_FIRST == 6

\* the raw list as concatenated, nothing removed
KeepAllNodes(nodes) == nodes

\* rawRepoMap: the first node of every name, in order of first appearance
RECURSIVE DedupeByName(_)
DedupeByName(nodes) ==
    IF nodes = <<>> THEN <<>>
    ELSE LET before == DedupeByName(SubSeq(nodes, 1, Len(nodes) - 1))
             repo == nodes[Len(nodes)]
         IN  IF \E i \in DOMAIN before : before[i].name = repo.name THEN before
             ELSE Append(before, repo)

\* transformRepo of a node without README, topics and tool files
transformRepo(repo) ==
    [BareRepo(repo.name, repo.updatedAt, repo.isFork) EXCEPT
        !.language = repo.language,
        !.code_quality = Some(NoFlags)]

\* GraphQLGitHubService.calculateLanguageStats: forks are left out
GraphQLCalculateLanguageStats(repositories) ==
    LET NotFork(r) == ~r.is_fork
    IN  calculateLanguageStats(SelectSeq(repositories, NotFork))

\* fetchUserData from the parsed response on
fetchUserData(resp, zone, clock) ==
    LET rawPinnedRepos == resp.pinnedItems
        rawAllRepos == resp.repositories
        rawRepos == DedupeByName(rawPinnedRepos \o rawAllRepos)
        activity == calculateActivityData(rawRepos, zone, clock, clock, clock)
        repositories == [i \in DOMAIN rawRepos |-> transformRepo(rawRepos[i])]
        NotFork(r) == ~r.is_fork
    IN  [user |-> [created_at |-> resp.createdAt, followers |-> resp.followers],
         repositories |-> repositories,
         pinnedRepos |-> [i \in DOMAIN resp.pinnedItems |-> resp.pinnedItems[i].name],
         languageStats |-> GraphQLCalculateLanguageStats(repositories),
         languageKeys |-> LanguageKeys(SelectSeq(repositories, NotFork)),
         activityData |->
            [lastCommitDate |-> activity.lastCommitDate,
             commitFrequency |-> activity.commitFrequency,
             activeDays |-> activity.activeDays,
             currentStreak |-> activity.currentStreak,
             longestStreak |-> activity.longestStreak,
             totalContributions |-> activity.totalContributions]]

-----------------------------------------------------------------------------
(* SpecFetch: fetchUserData on responses in which pinned items and own     *)
(* repositories overlap.                                                   *)

MaxFetchNames == 3
MaxFetchPinned == 3

\* the node of repository `name` of `owner`; the user's second repository is
\* a fork, and an organization's repository has its own language and commits
RawNode(name, owner) ==
    [name |-> name, owner |-> owner, isFork |-> (owner = "user" /\ name = 2),
     updatedAt |-> UpdatedAt(name, 3),
     language |-> IF owner = "org" THEN "Go" ELSE IF name % 2 = 1 THEN "Python" ELSE "",
     history |-> IF owner = "org" THEN History(<<ScoreNow - MS_PER_DAY>>, 0)
                 ELSE IF name = 1 THEN History(<<ScoreNow - 1, ScoreNow - 2>>, 0)
                 ELSE None]

\* sequences without repetition of at most k elements of S
DistinctSeqs(S, k) ==
    {s \in SeqsUpTo(S, k) : \A i, j \in DOMAIN s : i # j => s[i] # s[j]}

\* pinned items: up to MaxFetchPinned of the user's repositories and of an
\* organization's repository named like the user's first, or six repositories;
\* own repositories: up to MaxFetchNames of the user's, in any order
Responses ==
    LET own == {RawNode(n, "user") : n \in 1..MaxFetchNames}
        pinnable == own \cup {RawNode(1, "org")}
    IN  {[createdAt |-> ScoreNow - HoursPerYear, followers |-> 0,
          pinnedItems |-> pinned, repositories |-> all] :
            pinned \in DistinctSeqs(pinnable, MaxFetchPinned)
                       \cup {[i \in 1..PINNED_FIRST |-> RawNode(i, "user")]},
            all \in DistinctSeqs(own, MaxFetchNames)}

InitFetch ==
    /\ tz = "UTC"
    /\ now = ScoreNow
    /\ rawRepositories = <<>>
    /\ activityData = None
    /\ data = NoData
    /\ scoredRepos = <<>>
    /\ profileType = None
    /\ portfolio = None
    /\ suggestions = <<>>
    /\ prioritized = <<>>
    /\ topSuggestions = <<>>
    /\ previous = None
    /\ clockReads = <<>>
    /\ response \in {Some(r) : r \in Responses}
    /\ route = None
    /\ legacy = None
    /\ page = None
    /\ pc = "start"

\* GraphQLGitHubService.fetchUserData(username), the response received
FetchUserData ==
    /\ pc = "start"
    /\ rawRepositories' = DedupeByName(response[1].pinnedItems \o response[1].repositories)
    /\ data' = fetchUserData(response[1], tz, now)
    /\ pc' = "fetched"
    /\ UNCHANGED <<tz, now, activityData, scoredRepos, profileType, portfolio, suggestions,
                   prioritized, topSuggestions, previous, clockReads, response, route,
                   legacy, page>>

NextFetch == FetchUserData

SpecFetch == InitFetch /\ [][NextFetch]_vars

-----------------------------------------------------------------------------
(* The legacy ScoringEngine.  A repository carries, besides the fields     *)
(* above, size and forks; the user carries the length of the bio (0: no    *)
(* bio).  Scores that the code rounds are kept as fractions until rounded. *)

LegacyDimension(name, score, weight) == [name |-> name, score |-> score, weight |-> weight]

RedFlag(title, severity) == [title |-> title, severity |-> severity]

NonForkRepos(repositories) ==
    LET Own(r) == ~r.is_fork
    IN  SelectSeq(repositories, Own)

\* getExperienceLevel(calculateAccountAge(created_at))
getExperienceLevel(age) ==
    IF age.num < 1 * age.den THEN "beginner"
    ELSE IF age.num < 3 * age.den THEN "intermediate"
    ELSE IF age.num < 5 * age.den THEN "advanced"
    ELSE "expert"

getStarThresholds(experienceLevel) ==
    CASE experienceLevel = "beginner" -> [excellent |-> 10, good |-> 5, decent |-> 2]
      [] experienceLevel = "advanced" -> [excellent |-> 75, good |-> 35, decent |-> 15]
      [] experienceLevel = "expert" -> [excellent |-> 150, good |-> 75, decent |-> 30]
      [] OTHER -> [excellent |-> 30, good |-> 15, decent |-> 5]

detectLegendStatus(d) ==
    \/ TotalStars(d.repositories) >= 100000
    \/ d.user.followers >= 50000
    \/ \E i \in DOMAIN d.repositories : d.repositories[i].stars >= 50000

LegacyScoreDocumentation(d) ==
    LET nonForkRepos == NonForkRepos(d.repositories)
        n == Max(Len(nonForkRepos), 1)
        HasReadme(r) == r.has_readme
        withReadme == Count(nonForkRepos, HasReadme)
        topRepoNames == IF Len(d.pinnedRepos) > 0 THEN Range(d.pinnedRepos)
                        ELSE {nonForkRepos[i].name : i \in DOMAIN Slice0(nonForkRepos, 3)}
        IsTop(r) == r.name \in topRepoNames
        topRepos == SelectSeq(d.repositories, IsTop)
        t == Max(Len(topRepos), 1)
        Quality(r) == r.has_readme /\ r.readme_length > 500
        qualityReadmes == Count(topRepos, Quality)
    IN  LegacyDimension("Documentation Quality",
                        Round(50 * withReadme * t + 50 * qualityReadmes * n, n * t), 20)

LegacyScoreCodeStructure(d) ==
    LET nonForkRepos == NonForkRepos(d.repositories)
        n == Max(Len(nonForkRepos), 1)
        Trivial(r) == r.size < 5
        Structured(r) == r.description # "" /\ Len(r.topics) > 0
        num == (50 - Min(Count(nonForkRepos, Trivial) * 5, 30)) * n
               + 50 * Count(nonForkRepos, Structured)
    IN  LegacyDimension("Code Structure & Organization",
                        Round(Max(0, Min(100 * n, num)), n), 15)

LegacyScoreActivityConsistency(d, clock) ==
    LET last == d.activityData.lastCommitDate
        daysSinceLastCommit == (clock - last[1]) \div MS_PER_DAY
        recency == IF last = None THEN 0
                   ELSE IF daysSinceLastCommit <= 7 THEN 40
                   ELSE IF daysSinceLastCommit <= 30 THEN 30
                   ELSE IF daysSinceLastCommit <= 90 THEN 20
                   ELSE IF daysSinceLastCommit <= 180 THEN 10
                   ELSE 0
        commitFrequency == d.activityData.commitFrequency
        frequency == IF commitFrequency >= 20 * FREQ_MONTHS THEN 60
                     ELSE IF commitFrequency >= 10 * FREQ_MONTHS THEN 45
                     ELSE IF commitFrequency >= 5 * FREQ_MONTHS THEN 30
                     ELSE IF commitFrequency >= 2 * FREQ_MONTHS THEN 15
                     ELSE 0
    IN  LegacyDimension("Activity Consistency", recency + frequency, 20)

LegacyScoreRepositoryOrganization(d) ==
    LET nonForkRepos == NonForkRepos(d.repositories)
        n == Max(Len(nonForkRepos), 1)
        Described(r) == r.description # ""
        pinned == IF Len(d.pinnedRepos) >= 4 THEN 30
                  ELSE IF Len(d.pinnedRepos) > 0 THEN 15
                  ELSE 0
        bio == IF d.user.bio > 20 THEN 35 ELSE IF d.user.bio > 0 THEN 20 ELSE 0
    IN  LegacyDimension("Repository Organization",
                        Round((pinned + bio) * n + 35 * Count(nonForkRepos, Described), n), 15)

LegacyScoreProjectImpact(d, experienceLevel, isLegend) ==
    LET nonForkRepos == NonForkRepos(d.repositories)
        IsFork(r) == r.is_fork
        forks == Count(d.repositories, IsFork)
        len == Len(d.repositories)
        original == IF forks * 100 < 30 * len \/ len = 0 THEN 40
                    ELSE IF forks * 100 < 50 * len THEN 25
                    ELSE IF forks * 100 < 70 * len THEN 10
                    ELSE 0
        totalStars == TotalStars(d.repositories)
        starThresholds == getStarThresholds(experienceLevel)
        stars == IF totalStars >= starThresholds.excellent THEN 40
                 ELSE IF totalStars >= starThresholds.good THEN 30
                 ELSE IF totalStars >= starThresholds.decent THEN 20
                 ELSE 10
        Popular(r) == r.stars >= 5
        score == IF isLegend \/ totalStars >= 50000 THEN 100
                 ELSE original + stars + Min(Count(nonForkRepos, Popular) * 5, 20)
    IN  LegacyDimension("Project Impact", score, 15)

\* the languages of the model whose lower-cased name contains the lower-cased
\* name of one of C, C++, Rust, Go, Assembly, Zig, Odin, V
ContainsSystemsLanguage == {"C", "Go", "Java", "JavaScript", "TypeScript"}

LegacyModernLanguages == {"TypeScript", "Python", "Java", "Kotlin", "Swift", "Go"}

webTopics == {"react", "vue", "angular", "nextjs", "svelte"}

LegacyScoreTechnicalDepth(d, isLegend) ==
    LET nonForkRepos == NonForkRepos(d.repositories)
        n == Max(Len(nonForkRepos), 1)
        topLanguages == DOMAIN d.languageStats
        uniqueLangs == Cardinality(topLanguages)
        hasSystemsLanguage == \E lang \in topLanguages : lang \in ContainsSystemsLanguage
        diversity == IF uniqueLangs >= 5 THEN 25
                     ELSE IF uniqueLangs >= 3 THEN 18
                     ELSE IF uniqueLangs >= 2 THEN 12
                     ELSE 5
        hasModernLanguage == \E lang \in topLanguages : lang \in LegacyModernLanguages
        Web(r) == \E i \in DOMAIN r.topics : toLowerCase(r.topics[i]) \in webTopics
        Flag(r, f) == r.code_quality # None /\ r.code_quality[1][f]
        quality == SeqSum([i \in DOMAIN nonForkRepos |->
                       (IF Flag(nonForkRepos[i], "hasCI") THEN 15 ELSE 0)
                       + (IF Flag(nonForkRepos[i], "hasTests") THEN 10 ELSE 0)
                       + (IF Flag(nonForkRepos[i], "hasTypeScript") THEN 8 ELSE 0)
                       + (IF Flag(nonForkRepos[i], "hasLinting") THEN 7 ELSE 0)])
        num == (IF hasSystemsLanguage THEN 40 * n
                ELSE (diversity + (IF hasModernLanguage THEN 15 ELSE 0)) * n
                     + 10 * Count(nonForkRepos, Web))
               + Min(quality, 25 * n)
        score == IF isLegend /\ num < 85 * n THEN 90 ELSE Round(num, n)
    IN  LegacyDimension("Technical Depth", score, 15)

detectRedFlags(d, clock) ==
    LET nonForkRepos == NonForkRepos(d.repositories)
        topRepoNames == IF Len(d.pinnedRepos) > 0 THEN Range(d.pinnedRepos)
                        ELSE {d.repositories[i].name : i \in DOMAIN Slice0(d.repositories, 3)}
        NoReadmeTop(r) == r.name \in topRepoNames /\ ~r.has_readme
        last == d.activityData.lastCommitDate
        monthsSinceLastCommit == (clock - last[1]) \div (30 * MS_PER_DAY)
        Diluting(r) == r.size < 10 /\ ~r.has_readme /\ r.stars = 0 /\ r.forks = 0
    IN  (IF Count(d.repositories, NoReadmeTop) >= 2
         THEN <<RedFlag("Missing READMEs in Visible Repos", "high")>> ELSE <<>>)
        \o (IF last # None /\ monthsSinceLastCommit >= 6
            THEN <<RedFlag("Account Inactive", "high")>> ELSE <<>>)
        \o (IF Len(nonForkRepos) = 0 /\ Len(d.repositories) > 0
            THEN <<RedFlag("No Original Work", "high")>> ELSE <<>>)
        \o (IF Len(d.pinnedRepos) = 0
            THEN <<RedFlag("No Pinned Repositories", "medium")>> ELSE <<>>)
        \o (IF Count(nonForkRepos, Diluting) > 10
            THEN <<RedFlag("Portfolio Dilution", "medium")>> ELSE <<>>)
        \o (IF d.user.bio < 20
            THEN <<RedFlag("Missing Profile Bio", "low")>> ELSE <<>>)

\* the penalty of the red flags, none for a legend
redFlagPenalty(redFlags, isLegend) ==
    IF isLegend THEN 0
    ELSE SeqSum([i \in DOMAIN redFlags |->
                    IF redFlags[i].severity = "high" THEN 15
                    ELSE IF redFlags[i].severity = "medium" THEN 8
                    ELSE 3])

\* the final score without the floor at 0
finalScoreUnfloored(totalScore, penalty, isLegend) ==
    IF isLegend THEN Max(totalScore - penalty, 95) ELSE totalScore - penalty

\* finalScore: floored at 0, and at 95 for a legend
finalScore(totalScore, penalty, isLegend) ==
    LET floored == Max(0, totalScore - penalty)
    IN  IF isLegend THEN Max(floored, 95) ELSE floored

\* .sort((a, b) => scoreB - scoreA) on stars * 10 + (has_readme ? 5 : 0), stable
RECURSIVE LegacySortTop(_)
LegacySortTop(repos) ==
    IF repos = <<>> THEN <<>>
    ELSE LET Key(r) == r.stars * 10 + (IF r.has_readme THEN 5 ELSE 0)
             before == LegacySortTop(SubSeq(repos, 1, Len(repos) - 1))
             r == repos[Len(repos)]
             k == Cardinality({i \in DOMAIN before : Key(before[i]) >= Key(r)})
         IN  SubSeq(before, 1, k) \o <<r>> \o SubSeq(before, k + 1, Len(before))

LegacySelectTopRepos(d) ==
    LET Pinned(r) == r.name \in Range(d.pinnedRepos)
    IN  IF Len(d.pinnedRepos) > 0 THEN Slice0(SelectSeq(d.repositories, Pinned), 5)
        ELSE Slice0(LegacySortTop(NonForkRepos(d.repositories)), 5)

LegacyIdentifyStrengths(dimensions, d) ==
    LET Strong(dim) == dim.score >= 70
        strong == SelectSeq(dimensions, Strong)
        strengths ==
            [i \in DOMAIN strong |-> strong[i].name]
            \o (IF d.activityData.commitFrequency > 15 * FREQ_MONTHS
                THEN <<"Highly Active Developer">> ELSE <<>>)
            \o (IF TotalStars(d.repositories) > 20 THEN <<"Community Recognition">> ELSE <<>>)
            \o (IF Len(d.pinnedRepos) >= 4 THEN <<"Well-Curated Profile">> ELSE <<>>)
    IN  IF Len(strengths) > 0 THEN strengths ELSE <<"Keep building!">>

\* Math.round(dimensions.reduce((sum, dim) => sum + dim.score * (dim.weight / 100), 0))
LegacyWeightedTotal(dimensions) ==
    Round(SeqSum([i \in DOMAIN dimensions |-> dimensions[i].score * dimensions[i].weight]), 100)

\* ScoringEngine.calculateScore(data), its clock reads returning the same instant
LegacyCalculateScore(d, clock) ==
    LET experienceLevel == getExperienceLevel(calculateAccountAge(d.user.created_at, clock))
        isLegend == detectLegendStatus(d)
        dimensions == <<LegacyScoreDocumentation(d),
                        LegacyScoreCodeStructure(d),
                        LegacyScoreActivityConsistency(d, clock),
                        LegacyScoreRepositoryOrganization(d),
                        LegacyScoreProjectImpact(d, experienceLevel, isLegend),
                        LegacyScoreTechnicalDepth(d, isLegend)>>
        totalScore == LegacyWeightedTotal(dimensions)
        redFlags == detectRedFlags(d, clock)
    IN  [totalScore |-> finalScore(totalScore, redFlagPenalty(redFlags, isLegend), isLegend),
         dimensions |-> dimensions,
         redFlags |-> redFlags,
         topRepos |-> LegacySelectTopRepos(d),
         strengths |-> LegacyIdentifyStrengths(dimensions, d)]

-----------------------------------------------------------------------------
(* SpecLegacy: the legacy engine on profiles from empty to legendary.      *)

MaxLegacyRepos == 3

LegacyKinds == {"empty", "fork", "solid", "starred", "famous"}

\* an empty repository, a fork, a documented project with tooling, and two
\* widely starred projects: below and at the single-repository legend mark
LegacyRepo(kind, name) ==
    LET empty == [name |-> name, description |-> "", stars |-> 0, forks |-> 0, size |-> 0,
                  language |-> "", topics |-> <<>>, has_readme |-> FALSE,
                  readme_length |-> 0, is_fork |-> FALSE, code_quality |-> None]
    IN  CASE kind = "fork" -> [empty EXCEPT !.is_fork = TRUE, !.size = 40, !.language = "Ruby"]
          [] kind = "solid" ->
               [empty EXCEPT !.description = "an app", !.topics = <<"React">>, !.stars = 6,
                             !.size = 200, !.language = "Python", !.has_readme = TRUE,
                             !.readme_length = 900,
                             !.code_quality = Some([hasCI |-> TRUE, hasTests |-> TRUE,
                                                    hasTypeScript |-> FALSE,
                                                    hasLinting |-> TRUE])]
          [] kind = "starred" ->
               [empty EXCEPT !.description = "a library", !.stars = 40000, !.forks = 900,
                             !.size = 5000, !.language = "Python", !.has_readme = TRUE,
                             !.readme_length = 300]
          [] kind = "famous" ->
               [empty EXCEPT !.stars = 50000, !.forks = 2000, !.size = 90000,
                             !.language = "C"]
          [] OTHER -> empty

\* nothing pinned, or every repository pinned
LegacySnapshots ==
    {[user |-> [created_at |-> ScoreNow - years * HoursPerYear, followers |-> followers,
                bio |-> bio],
      repositories |-> [i \in DOMAIN kinds |-> LegacyRepo(kinds[i], i)],
      pinnedRepos |-> IF pinAll THEN [i \in DOMAIN kinds |-> i] ELSE <<>>,
      languageStats |-> calculateLanguageStats([i \in DOMAIN kinds |-> LegacyRepo(kinds[i], i)]),
      activityData |-> activity] :
        years \in {0, 6}, followers \in {0, 50000}, bio \in {0, 10, 40},
        kinds \in SeqsUpTo(LegacyKinds, MaxLegacyRepos), pinAll \in BOOLEAN,
        activity \in {[lastCommitDate |-> None, commitFrequency |-> 0],
                      [lastCommitDate |-> Some(ScoreNow - MS_PER_DAY),
                       commitFrequency |-> 20 * FREQ_MONTHS],
                      [lastCommitDate |-> Some(ScoreNow - 200 * MS_PER_DAY),
                       commitFrequency |-> 1]}}

InitLegacy ==
    /\ tz = "UTC"
    /\ now = ScoreNow
    /\ rawRepositories = <<>>
    /\ activityData = None
    /\ data \in LegacySnapshots
    /\ scoredRepos = <<>>
    /\ profileType = None
    /\ portfolio = None
    /\ suggestions = <<>>
    /\ prioritized = <<>>
    /\ topSuggestions = <<>>
    /\ previous = None
    /\ clockReads = <<>>
    /\ response = None
    /\ route = None
    /\ legacy = None
    /\ page = None
    /\ pc = "start"

\* ScoringEngine.calculateScore(data)
LegacyScore ==
    /\ pc = "start"
    /\ legacy' = Some(LegacyCalculateScore(data, now))
    /\ pc' = "scored"
    /\ UNCHANGED <<tz, now, rawRepositories, activityData, data, scoredRepos, profileType,
                   portfolio, suggestions, prioritized, topSuggestions, previous, clockReads,
                   response, route, page>>

NextLegacy == LegacyScore

SpecLegacy == InitLegacy /\ [][NextLegacy]_vars

-----------------------------------------------------------------------------
(* The analyze GET handlers: app/api/analyze/route.ts (GraphQL first, REST *)
(* as fallback, the new engine) and its earlier version in part_000 (REST  *)
(* only, the legacy engine).  `route` holds the locals of one invocation:  *)
(* the username, the fetches started so far in order, what each fetch did  *)
(* ("idle", "pending", "threw", "returned") and returned, fetchMode, and   *)
(* the response (status 0: none yet).  pc is the await the handler is      *)
(* suspended at.                                                           *)

\* if (!username): the parameter is absent or empty
MissingUsernameNever(username) == FALSE

MissingUsername(username) == username = ""

\* fetchMode as first assigned, never reassigned
fetchModeInitial(graphqlThrew) == "graphql"

\* let fetchMode = 'graphql', and fetchMode = 'rest' in the catch
fetchModeAfter(graphqlThrew) == IF graphqlThrew THEN "rest" ELSE "graphql"

NewRequest(handler, username) ==
    [handler |-> handler, username |-> username, fetches |-> <<>>, fetchMode |-> "none",
     graphql |-> "idle", graphqlData |-> None, rest |-> "idle", restData |-> None,
     status |-> 0, body |-> None]

\* the body of the 200 response, as far as it depends on the data and the score
ResultBody(d, totalScore, fetchMode) ==
    LET Own(r) == ~r.is_fork
    IN  [user |-> d.user, score |-> totalScore,
         metadata |-> [totalRepos |-> Len(d.repositories),
                       originalRepos |-> Count(d.repositories, Own),
                       totalStars |-> TotalStars(d.repositories),
                       languages |-> DOMAIN d.languageStats,
                       lastCommitDate |-> d.activityData.lastCommitDate,
                       fetchMode |-> fetchMode]]

ErrorBody(message) == [error |-> message]

-----------------------------------------------------------------------------
(* SpecRoute: one request to either handler, with or without a username,   *)
(* every fetch and the insight generation returning or throwing.           *)

MaxRouteRepos == 2

\* what the GraphQL fetch can return: snapshots of responses with at most one
\* pinned item and two repositories
GraphQLResults ==
    {fetchUserData(r, "UTC", ScoreNow) :
        r \in {q \in Responses : Len(q.pinnedItems) <= 1 /\ Len(q.repositories) <= MaxRouteRepos}}

\* what the REST fetch can return to route.ts: snapshots of a user with 7
\* followers (the GraphQL snapshots have none)
RestResults ==
    {Snapshot(ScoreNow - HoursPerYear, 7,
              [i \in 1..n |-> Repo(kind, i, UpdatedAt(i, 3), FALSE)],
              <<>>, NoData.activityData) :
        n \in 0..MaxRouteRepos, kind \in RepoKinds}

\* what the REST fetch can return to the handler of part_000
LegacyRestResults ==
    {d \in LegacySnapshots :
        /\ d.user.followers = 0 /\ d.user.bio = 10 /\ d.pinnedRepos = <<>>
        /\ Len(d.repositories) <= MaxRouteRepos - 1}

InitRoute ==
    /\ tz = "UTC"
    /\ now = ScoreNow
    /\ rawRepositories = <<>>
    /\ activityData = None
    /\ data = NoData
    /\ scoredRepos = <<>>
    /\ profileType = None
    /\ portfolio = None
    /\ suggestions = <<>>
    /\ prioritized = <<>>
    /\ topSuggestions = <<>>
    /\ previous = None
    /\ clockReads = <<>>
    /\ response = None
    /\ route \in {NewRequest(h, u) : h \in {"route", "part_000"}, u \in {"", "octocat"}}
    /\ legacy = None
    /\ page = None
    /\ pc = "start"

RouteUnchanged ==
    UNCHANGED <<tz, now, rawRepositories, activityData, scoredRepos, profileType, suggestions,
                prioritized, topSuggestions, previous, clockReads, response, page>>

\* GET up to its first await: 400 without a username, else the first fetch
GET ==
    /\ pc = "start"
    /\ IF MissingUsername(route.username)
       THEN /\ route' = [route EXCEPT !.status = 400,
                                      !.body = Some(ErrorBody("GitHub username is required"))]
            /\ pc' = "done"
       ELSE IF route.handler = "route"
       THEN /\ route' = [route EXCEPT !.fetchMode = fetchModeAfter(FALSE),
                                      !.fetches = Append(@, "graphql"),
                                      !.graphql = "pending"]
            /\ pc' = "graphql"
       ELSE /\ route' = [route EXCEPT !.fetches = Append(@, "rest"), !.rest = "pending"]
            /\ pc' = "rest"
    /\ UNCHANGED <<data, portfolio, legacy>>
    /\ RouteUnchanged

\* the scoring of the fetched data, up to the await of generateInsights
ScoreFetched(d) ==
    /\ data' = d
    /\ IF route.handler = "route"
       THEN /\ portfolio' = Some(calculateScore(d, now, now))
            /\ UNCHANGED legacy
       ELSE /\ legacy' = Some(LegacyCalculateScore(d, now))
            /\ UNCHANGED portfolio
    /\ pc' = "insights"

\* GraphQLGitHubService.fetchUserData returns
GraphQLReturns ==
    /\ pc = "graphql"
    /\ \E d \in GraphQLResults :
          /\ route' = [route EXCEPT !.graphql = "returned", !.graphqlData = Some(d)]
          /\ ScoreFetched(d)
    /\ RouteUnchanged

\* GraphQLGitHubService.fetchUserData throws: the catch starts the REST fetch
GraphQLThrows ==
    /\ pc = "graphql"
    /\ route' = [route EXCEPT !.graphql = "threw",
                              !.fetchMode = fetchModeAfter(TRUE),
                              !.fetches = Append(@, "rest"),
                              !.rest = "pending"]
    /\ pc' = "rest"
    /\ UNCHANGED <<data, portfolio, legacy>>
    /\ RouteUnchanged

\* GitHubService.fetchUserData returns
RestReturns ==
    /\ pc = "rest"
    /\ \E d \in IF route.handler = "route" THEN RestResults ELSE LegacyRestResults :
          /\ route' = [route EXCEPT !.rest = "returned", !.restData = Some(d)]
          /\ ScoreFetched(d)
    /\ RouteUnchanged

\* GitHubService.fetchUserData throws: the outer catch answers 500
RestThrows ==
    /\ pc = "rest"
    /\ route' = [route EXCEPT !.rest = "threw", !.status = 500,
                              !.body = Some(ErrorBody("Failed to fetch GitHub data"))]
    /\ pc' = "done"
    /\ UNCHANGED <<data, portfolio, legacy>>
    /\ RouteUnchanged

\* AIAnalyzer.generateInsights returns: the result is assembled and sent
InsightsReturn ==
    /\ pc = "insights"
    /\ route' = [route EXCEPT
          !.status = 200,
          !.body = Some(ResultBody(data,
                                   IF route.handler = "route" THEN portfolio[1].totalScore
                                   ELSE legacy[1].totalScore,
                                   route.fetchMode))]
    /\ pc' = "done"
    /\ UNCHANGED <<data, portfolio, legacy>>
    /\ RouteUnchanged

\* AIAnalyzer.generateInsights throws: the outer catch answers 500
InsightsThrow ==
    /\ pc = "insights"
    /\ route' = [route EXCEPT !.status = 500,
                              !.body = Some(ErrorBody("Failed to analyze GitHub profile"))]
    /\ pc' = "done"
    /\ UNCHANGED <<data, portfolio, legacy>>
    /\ RouteUnchanged

NextRoute ==
    \/ GET
    \/ GraphQLReturns
    \/ GraphQLThrows
    \/ RestReturns
    \/ RestThrows
    \/ InsightsReturn
    \/ InsightsThrow

SpecRoute == InitRoute /\ [][NextRoute]_vars

-----------------------------------------------------------------------------
(* AnalyzePage: the state of one mounted page component.  `page` holds     *)
(* params.username, the three useState cells, whether the effect of the    *)
(* latest username has yet to run, the fetchAnalysis calls in flight (each *)
(* with the username it was started for and its number in start order) and *)
(* what every call started so far has met ("pending", "ok", "failed").     *)

\* the analysis the API returns for a user
AnalysisOf(username) == [user |-> username]

\* the page as first rendered: useState(null), useState(null), useState(true)
MountedPage(username) ==
    [username |-> username, result |-> None, error |-> None, isLoading |-> TRUE,
     effectPending |-> TRUE, inFlight |-> {}, outcomes |-> <<>>]

-----------------------------------------------------------------------------
(* SpecPage: the page mounted for a username, the username changing while  *)
(* fetches are in flight, every fetch succeeding or failing at any time.   *)

MaxFetches == 3

PageUsernames == {"", "torvalds", "octocat"}

InitPage ==
    /\ tz = "UTC"
    /\ now = ScoreNow
    /\ rawRepositories = <<>>
    /\ activityData = None
    /\ data = NoData
    /\ scoredRepos = <<>>
    /\ profileType = None
    /\ portfolio = None
    /\ suggestions = <<>>
    /\ prioritized = <<>>
    /\ topSuggestions = <<>>
    /\ previous = None
    /\ clockReads = <<>>
    /\ response = None
    /\ route = None
    /\ legacy = None
    /\ page \in {Some(MountedPage(u)) : u \in PageUsernames}
    /\ pc = "mounted"

PageUnchanged ==
    UNCHANGED <<tz, now, rawRepositories, activityData, data, scoredRepos, profileType,
                portfolio, suggestions, prioritized, topSuggestions, previous, clockReads,
                response, route, legacy, pc>>

\* the effect of [username]: nothing without a username, else fetchAnalysis()
\* up to its await
Effect ==
    /\ page[1].effectPending
    /\ page' = Some(IF page[1].username = ""
                    THEN [page[1] EXCEPT !.effectPending = FALSE]
                    ELSE [page[1] EXCEPT
                             !.effectPending = FALSE,
                             !.isLoading = TRUE,
                             !.inFlight = @ \cup {[id |-> Len(page[1].outcomes) + 1,
                                                   username |-> page[1].username]},
                             !.outcomes = Append(@, "pending")])
    /\ PageUnchanged

\* params.username changes: the component renders again and its effect is due
Navigate ==
    /\ Len(page[1].outcomes) + (IF page[1].effectPending THEN 1 ELSE 0) < MaxFetches
    /\ \E u \in PageUsernames \ {page[1].username} :
          page' = Some([page[1] EXCEPT !.username = u, !.effectPending = TRUE])
    /\ PageUnchanged

\* a fetchAnalysis call gets an ok response: setResult(data), setIsLoading(false)
FetchResolves ==
    /\ \E f \in page[1].inFlight :
          page' = Some([page[1] EXCEPT !.result = Some(AnalysisOf(f.username)),
                                       !.isLoading = FALSE,
                                       !.inFlight = @ \ {f},
                                       !.outcomes[f.id] = "ok"])
    /\ PageUnchanged

\* a fetchAnalysis call throws (network, body, or a response that is not ok):
\* setError(err.message), setIsLoading(false)
FetchRejects ==
    /\ \E f \in page[1].inFlight :
          page' = Some([page[1] EXCEPT !.error = Some("Analysis Failed"),
                                       !.isLoading = FALSE,
                                       !.inFlight = @ \ {f},
                                       !.outcomes[f.id] = "failed"])
    /\ PageUnchanged

NextPage == Effect \/ Navigate \/ FetchResolves \/ FetchRejects

SpecPage == InitPage /\ [][NextPage]_vars

-----------------------------------------------------------------------------
(* Calendar notions the streak and frequency claims are stated in.         *)

\* the calendar day (in the server's zone) an instant falls on
CalendarDay(zone, t) == LocalTime(zone, t) \div MS_PER_DAY

\* the distinct calendar days with at least one commit
ActiveDates(zone, repositories) ==
    {CalendarDay(zone, c) : c \in Range(CommitDates(repositories))}

\* the number of consecutive calendar days of D that end at day d
RECURSIVE RunEndingAt(_, _)
RunEndingAt(D, d) == IF d \notin D THEN 0 ELSE 1 + RunEndingAt(D, d - 1)

SetMax(S) == CHOOSE x \in S : \A y \in S : y <= x

LongestRun(D) == IF D = {} THEN 0 ELSE SetMax({RunEndingAt(D, d) : d \in D})

ExpectedCurrentStreak(zone, repositories, t) ==
    LET D == ActiveDates(zone, repositories)
        today == CalendarDay(zone, t)
    IN  IF D # {} /\ SetMax(D) \in {today, today - 1}
        THEN RunEndingAt(D, SetMax(D))
        ELSE 0

\* C8: the current streak is 0 unless the most recent active calendar date is
\* today or yesterday, and then it is the number of consecutive calendar dates
\* ending at that date ({today, yesterday, today-2} gives 3, {today-5} gives 0).
C8_CurrentStreak ==
    pc = "graphql" =>
        activityData[1].currentStreak = ExpectedCurrentStreak(tz, rawRepositories, now)

\* C8 where every calendar day of the server's zone has 24 hours: there the
\* code computes the claimed streak.
C8_CurrentStreakFixedOffset ==
    (pc = "graphql" /\ tz = "UTC") =>
        activityData[1].currentStreak = ExpectedCurrentStreak(tz, rawRepositories, now)

\* C9: the longest streak is the length of the longest run of consecutive
\* calendar dates among the distinct active dates (0 without commits), it is at
\* least the current streak, and commits on adjacent calendar days are
\* contiguous whatever their times of day.
C9_LongestStreak ==
    pc = "graphql" =>
        /\ activityData[1].longestStreak = LongestRun(ActiveDates(tz, rawRepositories))
        /\ activityData[1].longestStreak >= activityData[1].currentStreak

C9_LongestStreakFixedOffset ==
    (pc = "graphql" /\ tz = "UTC") =>
        /\ activityData[1].longestStreak = LongestRun(ActiveDates(tz, rawRepositories))
        /\ activityData[1].longestStreak >= activityData[1].currentStreak

\* the commits the REST aggregator collects: those of the first 10 non-fork repositories
RestCommitDates(repositories) ==
    LET NotFork(r) == ~r.isFork
    IN  CommitDates(Slice0(SelectSeq(repositories, NotFork), REST_ACTIVITY_REPOS))

\* the number of commits of the list whose timestamp is >= t - 6 months
CommitsInWindow(zone, commitDates, t) ==
    Cardinality({i \in DOMAIN commitDates : commitDates[i] >= SetMonthMinus6(zone, t)})

\* C10: commit frequency is the number of commits with a timestamp within the
\* trailing 6-month window (timestamp >= now - 6 months) divided by 6, in both
\* aggregators: 30 commits in the window give 5/month, older commits do not
\* count, none in the window gives 0.  (commitFrequency is kept in sixths.)
C10_CommitFrequency ==
    /\ pc = "graphql" =>
          activityData[1].commitFrequency
              = CommitsInWindow(tz, CommitDates(rawRepositories), now)
    /\ pc = "rest" =>
          activityData[1].commitFrequency
              = CommitsInWindow(tz, RestCommitDates(rawRepositories), now)

\* C10 for the GraphQL aggregator alone, which filters with >=
C10_GraphQLCommitFrequency ==
    pc = "graphql" =>
        activityData[1].commitFrequency
            = CommitsInWindow(tz, CommitDates(rawRepositories), now)

\* the case of 30 commits inside the window and one older: frequency 5.0
C10_ThirtyCommits ==
    /\ pc = "graphql"
    /\ Len(CommitDates(rawRepositories)) = 31
    /\ activityData[1].commitFrequency = 5 * FREQ_MONTHS

-----------------------------------------------------------------------------
(* Claims on the scoring engine.                                           *)

\* C1: for every valid snapshot calculateScore returns an integer totalScore
\* with 0 <= totalScore <= 100.
C1_TotalScoreInRange ==
    pc = "scored" =>
        /\ portfolio[1].totalScore \in Int
        /\ 0 <= portfolio[1].totalScore
        /\ portfolio[1].totalScore <= 100

\* a scored snapshot with repositories, pinned names and a high total
C1_Witness ==
    /\ pc = "scored"
    /\ Len(data.repositories) > MAX_SCORED_REPOS
    /\ Len(data.pinnedRepos) = 2
    /\ portfolio[1].totalScore >= 80

WeightSum(w) ==
    w.codeQuality + w.projectImpact + w.currentActive
        + w.productionReadiness + w.technicalSkill + w.communityTrust

\* C2: for each of the three profile types the six weights getWeights returns
\* sum to exactly 100 (and so do the weights a scoring run resolved).
C2_WeightsSumTo100 ==
    /\ \A p \in ProfileTypes : WeightSum(getWeights(p)) = 100
    /\ pc = "scored" =>
          /\ profileType[1] \in ProfileTypes
          /\ SeqSum([i \in DOMAIN portfolio[1].dimensions |->
                       portfolio[1].dimensions[i].weight]) = 100

\* a scoring run that resolved the open-source table
C2_Witness ==
    /\ pc = "scored"
    /\ profileType = Some("open-source")
    /\ portfolio[1].dimensions[6].weight = 15

\* C3: detectProfileType decides first-match-wins: student iff account age < 3
\* years and total repositories <= 20 and total stars < 200; otherwise
\* open-source iff total stars > 500 or followers > 100; otherwise
\* professional.  No input satisfying the student condition is classified as
\* anything else.
C3_ProfileType ==
    pc = "classified" =>
        LET age == now - data.user.created_at
            stars == SeqSum([i \in DOMAIN data.repositories |-> data.repositories[i].stars])
            student == /\ age < 3 * 365 * 24
                       /\ Len(data.repositories) <= 20
                       /\ stars < 200
            oss == stars > 500 \/ data.user.followers > 100
        IN  /\ profileType[1] \in ProfileTypes
            /\ profileType[1] = "student" <=> student
            /\ profileType[1] = "open-source" <=> (~student /\ oss)
            /\ profileType[1] = "professional" <=> (~student /\ ~oss)

\* an account that meets the student condition and has more than 100
\* followers is a student
C3_Witness ==
    /\ pc = "classified"
    /\ data.user.followers > 100
    /\ Len(data.repositories) = 20
    /\ profileType = Some("student")

\* C4: selectReposForScoring returns at most 6 repositories and the pinned
\* ones come first, in the order of the pinned-name list.
C4_PinnedFirstInPinnedOrder ==
    pc = "selected" =>
        /\ Len(scoredRepos) <= 6
        /\ \A i \in 1..Min(6, Len(data.pinnedRepos)) :
              /\ i <= Len(scoredRepos)
              /\ scoredRepos[i].name = data.pinnedRepos[i]

\* what the selector does guarantee: at most 6, the pinned repositories first,
\* in the order they have in the repository list
C4_PinnedFirstInListOrder ==
    pc = "selected" =>
        LET k == Min(6, Len(data.pinnedRepos))
        IN  /\ Len(scoredRepos) <= 6
            /\ Len(scoredRepos) >= k
            /\ \A i \in 1..k : Includes(data.pinnedRepos, scoredRepos[i].name)
            /\ \A i \in 1..(k - 1) : scoredRepos[i].name < scoredRepos[i + 1].name

\* C5: with fewer than 6 pinned, the remaining slots hold only repositories
\* that are neither pinned nor forks, by updated_at descending: the length is
\* min(6, pinned + non-fork non-pinned), nothing appears twice, and no skipped
\* non-fork non-pinned repository is more recent than a selected filler.
C5_Fillers ==
    (pc = "selected" /\ Len(data.pinnedRepos) < 6) =>
        LET repos == data.repositories
            pinnedCount == Len(data.pinnedRepos)
            IsFiller(r) == ~Includes(data.pinnedRepos, r.name) /\ ~r.is_fork
            candidates == {repos[i] : i \in {j \in DOMAIN repos : IsFiller(repos[j])}}
            filled == (pinnedCount + 1)..Len(scoredRepos)
        IN  /\ Len(scoredRepos) = Min(6, pinnedCount + Cardinality(candidates))
            /\ \A i, j \in DOMAIN scoredRepos :
                  i # j => scoredRepos[i].name # scoredRepos[j].name
            /\ \A k \in filled : scoredRepos[k] \in candidates
            /\ \A k \in filled :
                  k + 1 \in filled => scoredRepos[k].updated_at >= scoredRepos[k + 1].updated_at
            /\ \A r \in candidates :
                  r \notin Range(scoredRepos) =>
                      \A k \in filled : r.updated_at <= scoredRepos[k].updated_at

\* 2 pinned and 10 non-pinned non-fork repositories: 6 selected, 4 of them fillers
C5_Witness ==
    /\ pc = "selected"
    /\ Len(data.pinnedRepos) = 2
    /\ Len(data.repositories) = 12
    /\ \A i \in DOMAIN data.repositories : ~data.repositories[i].is_fork
    /\ Len(scoredRepos) = 6
    /\ \E k \in 3..5 : scoredRepos[k].updated_at > scoredRepos[k + 1].updated_at

Rank(x) ==
    CASE x.priority = "critical" -> 0
      [] x.priority = "high" -> 1
      [] x.priority = "medium" -> 2
      [] x.priority = "low" -> 3

\* x sorts strictly before y: a more severe tier, or the same tier and more points
SortsBefore(x, y) ==
    Rank(x) < Rank(y) \/ (Rank(x) = Rank(y) /\ x.points > y.points)

Occurrences(s, x) == Cardinality({i \in DOMAIN s : s[i] = x})

\* C6: topSuggestions has at most 5 entries, ordered by priority tier (critical
\* first) and, within a tier, by points descending; priority dominates points;
\* no suggestion left out would sort before an included one.
C6_TopSuggestionsOrdered ==
    pc \in {"scored", "prioritized"} =>
        /\ Len(topSuggestions) = Min(5, Len(suggestions))
        /\ \A i \in 1..(Len(topSuggestions) - 1) :
              ~SortsBefore(topSuggestions[i + 1], topSuggestions[i])
        /\ \A x \in Range(topSuggestions) :
              Occurrences(topSuggestions, x) <= Occurrences(suggestions, x)
        /\ \A x \in Range(suggestions) :
              Occurrences(topSuggestions, x) < Occurrences(suggestions, x) =>
                  \A y \in Range(topSuggestions) : ~SortsBefore(x, y)
        /\ pc = "scored" => topSuggestions = portfolio[1].topSuggestions

\* six suggestions led by a low one worth 50 points, a critical one worth 1
\* point among them: five are kept and the critical one is first
C6_Witness ==
    /\ pc = "prioritized"
    /\ Len(suggestions) = 6
    /\ suggestions[1].priority = "low" /\ suggestions[1].points = 50
    /\ \E i \in DOMAIN suggestions : suggestions[i].priority = "critical"
    /\ \E i \in DOMAIN suggestions : suggestions[i].priority = "high"
    /\ Len(topSuggestions) = 5
    /\ topSuggestions[1].priority = "critical" /\ topSuggestions[1].points = 1

DimensionOrder ==
    <<"Code Quality", "Project Impact", "Current & Active", "Production Readiness",
      "Technical Skill", "Community Trust">>

\* C7: the sort is stable: suggestions with equal priority and equal points
\* keep their emission order, which in a scoring run is the dimension order
\* Code Quality, Project Impact, Current & Active, Production Readiness,
\* Technical Skill, Community Trust and, within a dimension, the push order.
C7_StableOrder ==
    pc \in {"scored", "prioritized"} =>
        /\ \A x \in Range(suggestions) :
              LET Tied(y) == y.priority = x.priority /\ y.points = x.points
              IN  SelectSeq(prioritized, Tied) = SelectSeq(suggestions, Tied)
        /\ topSuggestions = SubSeq(prioritized, 1, Len(topSuggestions))
        /\ pc = "scored" =>
              LET dims == portfolio[1].dimensions
              IN  /\ [i \in DOMAIN dims |-> dims[i].name] = DimensionOrder
                  /\ suggestions = Flat([i \in DOMAIN dims |-> dims[i].suggestions])
                  /\ \A i \in DOMAIN dims : \A k \in DOMAIN dims[i].suggestions :
                        dims[i].suggestions[k].category = dims[i].name

\* two critical 1-point suggestions emitted as fix-b, fix-a after a low one
\* come out first and in that order
C7_Witness ==
    /\ pc = "prioritized"
    /\ Len(suggestions) = 3
    /\ suggestions[1].id = "polish"
    /\ suggestions[2].id = "fix-b"
    /\ suggestions[3].id = "fix-a"
    /\ [i \in DOMAIN prioritized |-> prioritized[i].id] = <<"fix-b", "fix-a", "polish">>

-----------------------------------------------------------------------------
(* Empty inputs and the remaining activity metrics.                        *)

\* C11: when no repository has any commit, GraphQLGitHubService's
\* calculateActivityData returns lastCommitDate = null and commitFrequency,
\* activeDays, currentStreak, longestStreak and totalContributions all 0; when
\* there are commits, lastCommitDate is the greatest commit instant and
\* activeDays the number of distinct calendar days among the commits.
C11_EmptyCommitList ==
    pc = "graphql" =>
        LET a == activityData[1]
            commitDates == CommitDates(rawRepositories)
        IN  IF commitDates = <<>>
            THEN /\ a.lastCommitDate = None
                 /\ a.commitFrequency = 0
                 /\ a.activeDays = 0
                 /\ a.currentStreak = 0
                 /\ a.longestStreak = 0
                 /\ a.totalContributions = 0
            ELSE /\ a.lastCommitDate = Some(SetMax(Range(commitDates)))
                 /\ a.activeDays = Cardinality({CalendarDay(tz, t) : t \in Range(commitDates)})

\* the aggregator has run on a repository with an empty history followed by
\* one without a default branch
C11_Witness ==
    /\ pc = "graphql"
    /\ Len(rawRepositories) = 2
    /\ rawRepositories[1].history = History(<<>>, 0)
    /\ rawRepositories[2].history = None
    /\ activityData[1].lastCommitDate = None

\* a snapshot without repositories, pinned names, languages and commits
EmptySnapshot(d) ==
    /\ d.repositories = <<>>
    /\ d.pinnedRepos = <<>>
    /\ DOMAIN d.languageStats = {}
    /\ d.activityData.lastCommitDate = None
    /\ d.activityData.commitFrequency = 0

\* C12: on a snapshot with no repositories (no pinned names, no languages,
\* no commits) each of the six scorers returns an integer score in 0..100, and
\* Code Quality, whose three ratios all divide by max(0, 1), scores 0, so its
\* README-ratio contribution is 0.
C12_EmptyRepositoryList ==
    (pc = "scored" /\ EmptySnapshot(data)) =>
        LET dims == portfolio[1].dimensions
        IN  /\ Len(dims) = 6
            /\ \A i \in DOMAIN dims : dims[i].score \in 0..100
            /\ dims[1].name = "Code Quality"
            /\ dims[1].score = 0

\* an empty snapshot has been scored
C12_Witness ==
    /\ pc = "scored"
    /\ EmptySnapshot(data)
    /\ scoredRepos = <<>>
    /\ portfolio[1].dimensions[4].score = 50

-----------------------------------------------------------------------------
(* Repeated invocations and the clock.                                     *)

\* every clock read of the invocations made so far returned the same instant
SameNow == \A i, j \in DOMAIN clockReads : clockReads[i] = clockReads[j]

C14_SingleNow ==
    pc \in {"scored", "rescored"} =>
        LET sampled == clockReads[Len(clockReads) - 1]
        IN  portfolio[1] = calculateScore(data, sampled, sampled)

-----------------------------------------------------------------------------
(* The composite score and the dimension scores.                           *)

\* the weight-table entries in the order of the dimensions
WeightsInOrder(w) ==
    <<w.codeQuality, w.projectImpact, w.currentActive, w.productionReadiness,
      w.technicalSkill, w.communityTrust>>

\* 100 times the weighted sum of the dimension scores
WeightedPoints(dims) == SeqSum([i \in DOMAIN dims |-> dims[i].score * dims[i].weight])

\* C15: totalScore is the weighted sum of the six dimension scores divided by
\* 100 and rounded to the nearest integer (halves upwards), and the weight of
\* each returned dimension is the weight-table entry for the profile type
\* reported in the same PortfolioScore, so the six weights sum to 100.
C15_TotalScoreFormula ==
    pc = "scored" =>
        LET p == portfolio[1]
            dims == p.dimensions
            w == WeightsInOrder(WeightTable[IF p.profileType = "open-source"
                                            THEN "opensource" ELSE p.profileType])
        IN  /\ Len(dims) = 6
            /\ \A i \in 1..6 : dims[i].weight = w[i]
            /\ SeqSum([i \in 1..6 |-> dims[i].weight]) = 100
            /\ 2 * 100 * p.totalScore - 100 <= 2 * WeightedPoints(dims)
            /\ 2 * WeightedPoints(dims) < 2 * 100 * p.totalScore + 100

\* an open-source profile has been scored and its weighted sum was rounded up
C15_Witness ==
    /\ pc = "scored"
    /\ portfolio[1].profileType = "open-source"
    /\ WeightedPoints(portfolio[1].dimensions) % 100 >= 50
    /\ portfolio[1].totalScore = WeightedPoints(portfolio[1].dimensions) \div 100 + 1

\* C16: each of the six dimensions returned by the scorers has an integer
\* score between 0 and 100, whatever the snapshot; the sub-component points
\* never add up to more than 100.
C16_DimensionScoresInRange ==
    pc = "scored" =>
        \A i \in DOMAIN portfolio[1].dimensions :
            /\ portfolio[1].dimensions[i].score \in Int
            /\ portfolio[1].dimensions[i].score >= 0
            /\ portfolio[1].dimensions[i].score <= 100

\* six repositories with every signal and 20 commits a month: Code Quality,
\* Project Impact and Current & Active all reach 100
C16_Witness ==
    /\ pc = "scored"
    /\ Len(scoredRepos) = 6
    /\ portfolio[1].dimensions[1].score = 100
    /\ portfolio[1].dimensions[2].score = 100
    /\ portfolio[1].dimensions[3].score = 100

-----------------------------------------------------------------------------
(* The dimension scorers.                                                  *)

\* the number of selected repositories r with P(r), as a set cardinality
SelectedWith(P(_)) == Cardinality({i \in DOMAIN scoredRepos : P(scoredRepos[i])})

\* C17: the Production Readiness score is 50, plus 25 if at least one selected
\* repository has CI detected, plus 20 if at least one has tests detected; it
\* is never below 50, also when no repository carries code-quality flags or
\* none is selected.
C17_ProductionReadiness ==
    pc = "scored" =>
        LET dim == portfolio[1].dimensions[4]
            anyCI == \E i \in DOMAIN scoredRepos :
                        /\ scoredRepos[i].code_quality # None
                        /\ scoredRepos[i].code_quality[1].hasCI
            anyTests == \E i \in DOMAIN scoredRepos :
                           /\ scoredRepos[i].code_quality # None
                           /\ scoredRepos[i].code_quality[1].hasTests
        IN  /\ dim.name = "Production Readiness"
            /\ dim.score = 50 + (IF anyCI THEN 25 ELSE 0) + (IF anyTests THEN 20 ELSE 0)
            /\ dim.score >= 50

\* repositories without code-quality flags have been scored: 50
C17_Witness ==
    /\ pc = "scored"
    /\ Len(scoredRepos) >= 2
    /\ \A i \in DOMAIN scoredRepos : scoredRepos[i].code_quality = None
    /\ portfolio[1].dimensions[4].score = 50

\* whole days from the last commit to t
WholeDaysSince(last, t) == (t - last) \div MS_PER_DAY

\* the recency tier: 50 up to 7 days, 40 up to 30, 25 up to 90, else 10
RecencyTier(last, t) ==
    IF last # None /\ WholeDaysSince(last[1], t) <= 7 THEN 50
    ELSE IF last # None /\ WholeDaysSince(last[1], t) <= 30 THEN 40
    ELSE IF last # None /\ WholeDaysSince(last[1], t) <= 90 THEN 25
    ELSE 10

\* the frequency tier for `count` commits in six months: 50 from 20 a month,
\* 35 from 10, 20 from 5, else 5
FrequencyTier(count) ==
    IF count >= 20 * 6 THEN 50
    ELSE IF count >= 10 * 6 THEN 35
    ELSE IF count >= 5 * 6 THEN 20
    ELSE 5

\* C18: the Current & Active score is the recency tier of the whole days since
\* the last commit plus the commit-frequency tier, for every ActivityMetrics
\* value, one without a last commit date included.
C18_CurrentActive ==
    pc = "scored" =>
        portfolio[1].dimensions[3].score =
            RecencyTier(data.activityData.lastCommitDate, now)
            + FrequencyTier(data.activityData.commitFrequency)

\* the same for the metrics that carry a last commit date
C18_CurrentActiveWithLastCommit ==
    (pc = "scored" /\ data.activityData.lastCommitDate # None) =>
        portfolio[1].dimensions[3].score =
            RecencyTier(data.activityData.lastCommitDate, now)
            + FrequencyTier(data.activityData.commitFrequency)

\* metrics without a last commit date have been scored: no recency points
C18_NoLastCommit ==
    /\ pc = "scored"
    /\ data.activityData.lastCommitDate = None
    /\ portfolio[1].dimensions[3].score = 5

\* the numerator of 50 * r + 30 * d + 20 * l over the selected repositories:
\* 50 for each with a README, 30 for each with a description and a topic,
\* 20 for each with lint configuration detected
CodeQualityPoints ==
    LET WithReadme(r) == r.has_readme
        Described(r) == r.description # "" /\ Len(r.topics) >= 1
        Linted(r) == r.code_quality # None /\ r.code_quality[1].hasLinting
    IN  50 * SelectedWith(WithReadme) + 30 * SelectedWith(Described)
        + 20 * SelectedWith(Linted)

\* C19: the Code Quality score is 50 * r + 30 * d + 20 * l rounded to the
\* nearest integer (halves upwards), r, d and l being the fractions of the
\* selected repositories with a README, with a description and a topic, and
\* with lint configuration; the fractions are 0 when nothing is selected.
C19_CodeQuality ==
    pc = "scored" =>
        LET s == portfolio[1].dimensions[1].score
            n == Len(scoredRepos)
        IN  IF n = 0 THEN s = 0
            ELSE /\ 2 * n * s - n <= 2 * CodeQualityPoints
                 /\ 2 * CodeQualityPoints < 2 * n * s + n

\* four selected repositories whose points come to a half, rounded upwards
C19_Witness ==
    /\ pc = "scored"
    /\ Len(scoredRepos) = 4
    /\ CodeQualityPoints % 4 = 2
    /\ portfolio[1].dimensions[1].score = (CodeQualityPoints + 2) \div 4

\* live-demo evidence: a homepage URL or README text naming a hosting domain
LiveDemo(r) ==
    \/ r.homepage # ""
    \/ /\ r.readme_content # None
       /\ r.readme_content[1] \cap {"vercel.app", "netlify.app", "github.io"} # {}

\* narrative evidence: README text with a motivation or problem-statement keyword
Narrative(r) ==
    /\ r.readme_content # None
    /\ r.readme_content[1] \cap {"why i built", "problem", "motivation"} # {}

\* completeness: a description and a README of more than 200 characters
Completeness(r) == r.description # "" /\ r.readme_length > 200

\* every selected repository has all three kinds of evidence
FullEvidence ==
    \A i \in DOMAIN scoredRepos :
        LiveDemo(scoredRepos[i]) /\ Narrative(scoredRepos[i]) /\ Completeness(scoredRepos[i])

\* C20: the Project Impact score is the sum of 35 points for live-demo
\* evidence, 35 for narrative-README evidence and 30 for completeness over the
\* selected repositories, so a selected set in which every repository has all
\* three scores 100.
C20_ProjectImpact ==
    (pc = "scored" /\ scoredRepos # <<>> /\ FullEvidence) =>
        portfolio[1].dimensions[2].score = 100

\* the same for selected sets of five or six repositories
C20_ProjectImpactFiveOrMore ==
    (pc = "scored" /\ Len(scoredRepos) >= 5 /\ FullEvidence) =>
        portfolio[1].dimensions[2].score = 100

\* one selected repository with all three kinds of evidence scores 72
C20_SingleRepository ==
    /\ pc = "scored"
    /\ Len(scoredRepos) = 1
    /\ FullEvidence
    /\ portfolio[1].dimensions[2].score = 72

\* the distinct-language tier: 40 from 5 languages, 30 from 3, 20 from 2, else 10
LanguageTier(k) ==
    IF k >= 5 THEN 40 ELSE IF k >= 3 THEN 30 ELSE IF k >= 2 THEN 20 ELSE 10

\* the repository carries a topic tag that, in lower case, names a framework
FrameworkTagged(r) == {toLowerCase(r.topics[i]) : i \in DOMAIN r.topics} \cap frameworks # {}

\* C21: the Technical Skill score is the distinct-language tier, plus 30 if a
\* language of the distribution is in the modern-language list, plus 10 for
\* each selected repository with a recognized framework topic, at most 30.
C21_TechnicalSkill ==
    pc = "scored" =>
        LET languages == DOMAIN data.languageStats
            tagged == SelectedWith(FrameworkTagged)
        IN  portfolio[1].dimensions[5].score =
                LanguageTier(Cardinality(languages))
                + (IF languages \cap modernLanguages # {} THEN 30 ELSE 0)
                + (IF 10 * tagged < 30 THEN 10 * tagged ELSE 30)

\* five languages, a modern one among them, and more than three selected
\* repositories with a framework topic: 100
C21_Witness ==
    /\ pc = "scored"
    /\ Cardinality(DOMAIN data.languageStats) = 5
    /\ SelectedWith(FrameworkTagged) > 3
    /\ portfolio[1].dimensions[5].name = "Technical Skill"
    /\ portfolio[1].dimensions[5].score = 100

\* the stars of all repositories of the snapshot
StarTotal == SeqSum([i \in DOMAIN data.repositories |-> data.repositories[i].stars])

\* C22: the Community Trust score is 10 * rawPoints, at most 100, where
\* rawPoints is 3 if any repository has open issues, plus 2 if the star total
\* is at least 200, else 1 if it is at least 50; the score is one of 0, 10, 20,
\* 30, 40, 50.
C22_CommunityTrust ==
    pc = "scored" =>
        LET anyIssues == \E i \in DOMAIN data.repositories :
                            data.repositories[i].open_issues > 0
            rawPoints == (IF anyIssues THEN 3 ELSE 0)
                         + (IF StarTotal >= 200 THEN 2 ELSE IF StarTotal >= 50 THEN 1 ELSE 0)
            s == portfolio[1].dimensions[6].score
        IN  /\ s = (IF 10 * rawPoints < 100 THEN 10 * rawPoints ELSE 100)
            /\ s \in {0, 10, 20, 30, 40, 50}

\* open issues and exactly 200 stars in total: 50
C22_Witness ==
    /\ pc = "scored"
    /\ StarTotal = 200
    /\ \E i \in DOMAIN data.repositories : data.repositories[i].open_issues > 0
    /\ portfolio[1].dimensions[6].name = "Community Trust"
    /\ portfolio[1].dimensions[6].score = 50

-----------------------------------------------------------------------------
(* Forks, suggestions and the fetched snapshot.                            *)

\* the raw repositories with the commits of every fork removed
WithoutForkCommits(repositories) ==
    [i \in DOMAIN repositories |->
        IF repositories[i].isFork
        THEN [repositories[i] EXCEPT !.history = History(<<>>, 0)]
        ELSE repositories[i]]

\* the metrics the fork claim is about
ActivitySignal(a) ==
    <<a.lastCommitDate, a.commitFrequency, a.activeDays, a.currentStreak, a.longestStreak>>

\* C23: the commits of forked repositories contribute nothing to the activity
\* metrics: removing them leaves lastCommitDate, commitFrequency, activeDays,
\* currentStreak and longestStreak as GraphQLGitHubService's
\* calculateActivityData returned them.
C23_ForksExcluded ==
    pc = "graphql" =>
        ActivitySignal(activityData[1]) =
            ActivitySignal(calculateActivityData(WithoutForkCommits(rawRepositories),
                                                 tz, now, now, now))

\* the same for GitHubService's calculateActivityData, which returns no streaks
C23_RestForksExcluded ==
    pc = "rest" =>
        LET a == activityData[1]
            b == RestCalculateActivityData(WithoutForkCommits(rawRepositories), tz, now)
        IN  /\ a.lastCommitDate = b.lastCommitDate
            /\ a.commitFrequency = b.commitFrequency
            /\ a.activeDays = b.activeDays

\* the aggregator has run on a user's repository without commits and a fork
\* with commits
C23_ForkOnly ==
    /\ pc = "graphql"
    /\ Len(rawRepositories) = 2
    /\ rawRepositories[1].history = History(<<>>, 0)
    /\ rawRepositories[2].isFork
    /\ activityData[1].lastCommitDate # None

\* the suggestion lists the six scorers emit for the snapshot, in dimension order
EmittedSuggestions ==
    LET w == getWeights(detectProfileType(data, now))
    IN  <<scoreCodeQuality(data, scoredRepos, w.codeQuality).suggestions,
          scoreProjectImpact(data, scoredRepos, w.projectImpact).suggestions,
          scoreCurrentActive(data, w.currentActive, now).suggestions,
          scoreProductionReadiness(data, scoredRepos, w.productionReadiness).suggestions,
          scoreTechnicalSkill(data, scoredRepos, w.technicalSkill).suggestions,
          scoreCommunityTrust(data, w.communityTrust).suggestions>>

DistinctIds(s) == \A i, j \in DOMAIN s : i # j => s[i].id # s[j].id

\* C25: for every snapshot no two entries of topSuggestions share an id, and
\* no two entries of the concatenated per-dimension suggestion lists do.
C25_DistinctIds ==
    pc = "scored" =>
        /\ DistinctIds(portfolio[1].topSuggestions)
        /\ DistinctIds(Flat([i \in DOMAIN portfolio[1].dimensions |->
                               portfolio[1].dimensions[i].suggestions]))

\* a snapshot for which the scorers emit all eleven suggestions
C25_Witness ==
    /\ pc = "scored"
    /\ Len(Flat([i \in DOMAIN portfolio[1].dimensions |->
                   portfolio[1].dimensions[i].suggestions])) = 11
    /\ Cardinality({portfolio[1].topSuggestions[k].id :
                      k \in DOMAIN portfolio[1].topSuggestions}) = TOP_SUGGESTIONS

\* C26: in the snapshot fetchUserData builds from a GraphQL response the
\* repository names are unique (a repository both pinned and among the user's
\* repositories appears once), pinnedRepos has at most 6 names, and every
\* name in pinnedRepos is the name of a repository of the snapshot.
C26_SnapshotInvariant ==
    pc = "fetched" =>
        LET repos == data.repositories
        IN  /\ \A i, j \in DOMAIN repos : i # j => repos[i].name # repos[j].name
            /\ Len(data.pinnedRepos) <= 6
            /\ \A k \in DOMAIN data.pinnedRepos :
                   \E i \in DOMAIN repos : repos[i].name = data.pinnedRepos[k]

\* a repository both pinned and among the user's repositories was fetched
C26_Witness ==
    /\ pc = "fetched"
    /\ \E k \in DOMAIN response[1].pinnedItems : \E i \in DOMAIN response[1].repositories :
           response[1].pinnedItems[k] = response[1].repositories[i]
    /\ Len(data.repositories) < Len(response[1].pinnedItems) + Len(response[1].repositories)
    /\ Len(data.pinnedRepos) = MaxFetchPinned

\* the red flags of the result, priced 15 per high, 8 per medium, 3 per low
FlagPrice ==
    LET flags == legacy[1].redFlags
        Sev(s) == Cardinality({i \in DOMAIN flags : flags[i].severity = s})
    IN  15 * Sev("high") + 8 * Sev("medium") + 3 * Sev("low")

\* legend status: 100000 total stars, 50000 followers, or one repository with
\* 50000 stars
LegendProfile ==
    \/ SeqSum([i \in DOMAIN data.repositories |-> data.repositories[i].stars]) >= 100000
    \/ data.user.followers >= 50000
    \/ \E i \in DOMAIN data.repositories : data.repositories[i].stars >= 50000

C29_PenaltyAboveTotal ==
    /\ pc = "scored" /\ legacy # None
    /\ ~LegendProfile
    /\ FlagPrice > LegacyWeightedTotal(legacy[1].dimensions)
    /\ legacy[1].totalScore = 0

\* a legend whose weighted total is above 95 was scored
C29_LegendAbove95 ==
    /\ pc = "scored" /\ legacy # None
    /\ LegendProfile
    /\ legacy[1].totalScore > 95

\* the fetch layer of the request failed: the only fetch of part_000, or both
\* fetches of route.ts
FetchLayerThrew ==
    /\ route.rest = "threw"
    /\ route.handler = "route" => route.graphql = "threw"

\* the scorer of the handler ran on d
ScorerRanOn(d) ==
    IF route.handler = "route" THEN portfolio = Some(calculateScore(d, now, now))
    ELSE legacy = Some(LegacyCalculateScore(d, now))

\* C27: a request without a username is answered 400 and no fetch and no
\* scoring run is ever started for it; when the fetch layer has thrown (in
\* route.ts: the fallback too) the answer is 500; and 200 is answered only
\* after a fetch returned and the scorer ran on what it returned.
C27_StatusCodes ==
    route # None =>
        /\ route.username = "" =>
              /\ route.fetches = <<>> /\ portfolio = None /\ legacy = None
              /\ pc = "done" => route.status = 400
        /\ (pc = "done" /\ FetchLayerThrew) => route.status = 500
        /\ route.status = 200 =>
              \E kind \in {"graphql", "rest"} :
                  /\ route[kind] = "returned"
                  /\ data = (IF kind = "rest" THEN route.restData ELSE route.graphqlData)[1]
                  /\ ScorerRanOn(data)

\* route.ts answered 500 after the GraphQL fetch and then the REST fetch threw
C27_Witness ==
    /\ route # None /\ pc = "done"
    /\ route.handler = "route"
    /\ route.fetches = <<"graphql", "rest">>
    /\ FetchLayerThrew
    /\ route.status = 500

\* a request without a username was answered
C27_NoUsername ==
    route # None /\ pc = "done" /\ route.username = "" /\ route.status = 400

\* the handler of part_000 answered 200
C27_Success ==
    route # None /\ pc = "done" /\ route.status = 200 /\ route.handler = "part_000"

\* C28: in route.ts the REST fetch is started only after the GraphQL fetch of
\* the request threw; each kind of fetch is started at most once; the
\* fetchMode reported is "rest" exactly when the REST fetch supplied the data
\* and "graphql" otherwise; and the scorer ran on the data of the fetch that
\* fetchMode names.
C28_FallbackOrder ==
    (route # None /\ route.handler = "route") =>
        /\ route.rest # "idle" => route.graphql = "threw"
        /\ route.fetches \in {<<>>, <<"graphql">>, <<"graphql", "rest">>}
        /\ pc \in {"insights", "done"} /\ route.status \in {0, 200} =>
              /\ route.fetchMode = "rest" <=>
                     (route.rest = "returned" /\ Some(data) = route.restData)
              /\ route.fetchMode # "rest" =>
                     (route.fetchMode = "graphql" /\ route.graphql = "returned"
                      /\ Some(data) = route.graphqlData)
              /\ portfolio = Some(calculateScore(
                     (IF route.fetchMode = "rest" THEN route.restData
                      ELSE route.graphqlData)[1], now, now))
        /\ route.status = 200 => route.body[1].metadata.fetchMode = route.fetchMode

\* the fallback supplied the data of a 200 response
C28_Witness ==
    /\ route # None /\ route.handler = "route"
    /\ pc = "done" /\ route.status = 200
    /\ route.fetches = <<"graphql", "rest">>
    /\ route.graphql = "threw" /\ route.rest = "returned"
    /\ route.body[1].metadata.fetchMode = "rest"
    /\ Len(data.repositories) > 0

\* the REST fetch of route.ts starts in a step in which the GraphQL fetch throws
C28_RestAfterGraphQL ==
    [][(route.handler = "route" /\ route.rest = "idle" /\ route'.rest = "pending")
          => (route.graphql = "pending" /\ route'.graphql = "threw")]_vars

\* the page has a username, its effect has run and no fetchAnalysis call is
\* in flight
PageSettled ==
    /\ page # None
    /\ page[1].username # ""
    /\ ~page[1].effectPending
    /\ page[1].inFlight = {}

\* C30: whenever no fetchAnalysis call is in flight for a non-empty username,
\* isLoading is false, exactly one of result and error is non-null, and it is
\* the outcome of the fetch started last: its analysis if it succeeded, the
\* error if it failed.
C30_SettledPage ==
    PageSettled =>
        LET p == page[1]
            last == p.outcomes[Len(p.outcomes)]
        IN  /\ ~p.isLoading
            /\ (p.result = None) # (p.error = None)
            /\ last = "ok" => p.result = Some(AnalysisOf(p.username))
            /\ last = "failed" => p.error # None

\* with no call in flight the page is not loading
C30_NotLoadingWhenSettled ==
    PageSettled => ~page[1].isLoading

\* a page that only ever started one fetch shows exactly one of result and error
C30_SingleFetch ==
    (PageSettled /\ Len(page[1].outcomes) = 1) =>
        (page[1].result = None) # (page[1].error = None)

\* a successful fetch followed a failed one and the page is at rest
C30_SuccessAfterFailure ==
    /\ PageSettled
    /\ Len(page[1].outcomes) = 2
    /\ page[1].outcomes = <<"failed", "ok">>

\* with the last fetch answered first, the page shows the analysis of the
\* user of the earlier fetch
C30_StaleResult ==
    /\ PageSettled
    /\ page[1].outcomes = <<"ok", "ok">>
    /\ page[1].result # Some(AnalysisOf(page[1].username))

====
